---------------------------- MODULE Spec2Model ----------------------------
(***************************************************************************)
(* A model of magic-sql-gen: the fake entry generator                      *)
(* (src/generate_sql.rs) and the model assembler                           *)
(* (src/magicdraw_parser/mod.rs).                                          *)
(*                                                                         *)
(* A Rust String is a sequence of one-character strings, so that           *)
(* truncation, splitting and pattern matching are computed, not assumed.   *)
(* Option<T> is <<>> (None) or <<v>> (Some(v)).                            *)
(***************************************************************************)
EXTENDS Integers, Sequences, FiniteSets

VARIABLES
    \* generate_fake_entries: arguments
    tables, value_guessess, rows_per_table,
    \* generate_fake_entries: locals
    all_foreign_columns, all_entries, entries_with_foreign_keys,
    entries_with_foreign_keys_copy, before_retain,
    todo,        \* the elements HashSet::retain has not visited yet in this pass
    passes,      \* number of iterations of the while loop begun so far
    pc,          \* position in generate_fake_entries
    result,      \* what generate_fake_entries returned
    \* generate_value: arguments and outcome
    gv_guess, gv_counter, gv_outcome,
    \* generate_guess: argument and returned strategy
    gg_column, gg_guess,
    \* parse_check_constraint: how the argument is built, the argument, the result
    check_parts, check_body, check_result,
    \* parse_project: the parsed documents and the result
    project_input, project_result,
    \* parse_project: locals
    collections,     \* the collections pushed so far
    scripts_done,    \* number of DDL scripts the loops have gone through
    project_pc,      \* position in parse_project
    \* App: its fields, the browser's local storage
    current_collection, current_guessess, currently_shown_table,
    all_good_confirmed, generated_sql, self_rows_per_table, local_storage,
    app_pc,            \* "ready" between messages, "generating" inside GenerateSQL
    before_generate,   \* the fields as they were when GenerateSQL was received
    generate_outcome,  \* how the call of the last handled GenerateSQL ended
    \* MyEventReader: the events its EventReader delivers, how many were read, depth
    xml_events, xml_consumed, xml_depth,
    xml_frames,        \* the running calls of parse_element and get_element_characters
    xml_readers,       \* for every event read, the call that read it
    xml_visits,        \* the calls of process_element so far
    xml_returns,       \* the successful returns of parse_element so far
    xml_outcome,       \* how the parser function at the bottom ended
    \* a parser function on its own: its argument and what it returned
    document, document_result

genVars == <<tables, value_guessess, rows_per_table, all_foreign_columns,
             all_entries, entries_with_foreign_keys,
             entries_with_foreign_keys_copy, before_retain, todo, passes,
             pc, result>>
valueVars == <<gv_guess, gv_counter, gv_outcome>>
guessVars == <<gg_column, gg_guess>>
checkVars == <<check_parts, check_body, check_result>>
projectVars == <<project_input, project_result, collections, scripts_done, project_pc>>

appVars == <<current_collection, current_guessess, currently_shown_table,
             all_good_confirmed, generated_sql, self_rows_per_table, local_storage,
             app_pc, before_generate, generate_outcome>>

parserVars == <<xml_events, xml_consumed, xml_depth, xml_frames, xml_readers,
                xml_visits, xml_returns, xml_outcome, document, document_result>>

vars == <<genVars, valueVars, guessVars, checkVars, projectVars, appVars, parserVars>>

-----------------------------------------------------------------------------
(* Bounds of the model                                                     *)

MaxTables == 2
MaxColumns == 2
MaxRows == 2

-----------------------------------------------------------------------------
(* Option and sequence helpers                                             *)

None == <<>>
Some(v) == <<v>>
IsSome(o) == o # <<>>
Unwrap(o) == o[1]

RECURSIVE SeqsUpTo(_, _)
\* all sequences over S of length at most n
SeqsUpTo(S, n) ==
    IF n = 0 THEN {<<>>}
    ELSE LET shorter == SeqsUpTo(S, n - 1)
         IN  shorter \cup {Append(s, x) : s \in {t \in shorter : Len(t) = n - 1}, x \in S}

\* iter().enumerate().find(|(_, x)| x.name.eq(name)): the first index whose element
\* has that name, 0 if there is none
FindByName(seq, name) ==
    IF \E i \in 1..Len(seq) : seq[i].name = name
    THEN CHOOSE i \in 1..Len(seq) :
            seq[i].name = name /\ \A j \in 1..(i - 1) : seq[j].name # name
    ELSE 0

Digits == <<"0", "1", "2", "3", "4", "5", "6", "7", "8", "9">>

RECURSIVE to_string(_)
\* u32::to_string / i32::to_string of a non-negative number
to_string(n) ==
    IF n < 10 THEN <<Digits[n + 1]>>
    ELSE to_string(n \div 10) \o <<Digits[(n % 10) + 1]>>

RECURSIVE Concat(_)
\* the concatenation of a sequence of sequences
Concat(ss) == IF ss = <<>> THEN <<>> ELSE Head(ss) \o Concat(Tail(ss))

RECURSIVE Join(_, _)
\* [String]::join(sep)
Join(ss, sep) ==
    IF ss = <<>> THEN <<>>
    ELSE IF Len(ss) = 1 THEN ss[1]
    ELSE ss[1] \o sep \o Join(Tail(ss), sep)

Quote == "'"

\* format!("'{}'", str)
Quoted(str) == <<Quote>> \o str \o <<Quote>>

-----------------------------------------------------------------------------
(* SQLValueGuess and its sub-guesses (src/generate_sql.rs:12-56)           *)

IntRange(min, max) == [tag |-> "Int", sub |-> [tag |-> "Range", min |-> min, max |-> max]]
IntAutoIncrement == [tag |-> "Int", sub |-> [tag |-> "AutoIncrement"]]
DateGuess(t) == [tag |-> "Date", sub |-> [tag |-> t]]
TimeGuess(t) == [tag |-> "Time", sub |-> [tag |-> t]]
DatetimeGuess(t) == [tag |-> "Datetime", sub |-> [tag |-> t]]
FloatGuess(min, max) == [tag |-> "Float", min |-> min, max |-> max]
BoolGuess(b) == [tag |-> "Bool", sub |-> [tag |-> b]]
StringGuess(max_size, s) == [tag |-> "String", max_size |-> max_size, sub |-> [tag |-> s]]
StringRandomEnum(max_size, options) ==
    [tag |-> "String", max_size |-> max_size,
     sub |-> [tag |-> "RandomEnum", options |-> options]]

SQLTimeValueGuess == {"Now", "Future", "Past"}
SQLBoolValueGuess == {"True", "False", "Random"}
\* the SQLStringValueGuess variants that carry no data
SQLStringValueGuessPlain ==
    {"LoremIpsum", "FirstName", "LastName", "FullName", "Empty", "PhoneNumber",
     "CityName", "Address", "Email", "URL"}

-----------------------------------------------------------------------------
(* generate_value (src/generate_sql.rs:173-282)                            *)
(*                                                                         *)
(* The random source, the clock and the `fake` crate are outside the       *)
(* repository: each is a nondeterministic choice from a small set of the   *)
(* values it can deliver.                                                  *)

\* number of bytes of the UTF-8 encoding of a character; "U2" stands for a
\* character outside ASCII that takes two bytes
Utf8Len(c) == IF c = "U2" THEN 2 ELSE 1

RECURSIVE ByteLen(_)
\* String::len
ByteLen(str) == IF str = <<>> THEN 0 ELSE Utf8Len(Head(str)) + ByteLen(Tail(str))

\* String::is_char_boundary(n)
IsCharBoundary(str, n) ==
    \E k \in 0..Len(str) : ByteLen(SubSeq(str, 1, k)) = n

\* String::truncate that leaves the text as it is
StringTruncateNoCut(str, new_len) ==
    [ok |-> TRUE, str |-> str]

\* String::truncate(new_len): no effect when new_len is past the end, a panic when
\* new_len is not on a character boundary
StringTruncate(str, new_len) ==
    IF new_len >= ByteLen(str) THEN [ok |-> TRUE, str |-> str]
    ELSE IF ~IsCharBoundary(str, new_len) THEN [ok |-> FALSE]
    ELSE LET k == CHOOSE k \in 0..Len(str) : ByteLen(SubSeq(str, 1, k)) = new_len
         IN  [ok |-> TRUE, str |-> SubSeq(str, 1, k)]

\* what the generators of the `fake` crate deliver: some ASCII texts
FakeWords == {<<"a">>, <<"b", "o">>, <<"c", "a", "t">>}
FakeNames == {<<"a", "l">>, <<"j", "o", "h", "n">>, <<"m", "a", "r", "y", " ", "k">>}

\* Words(3..10): between 3 and 9 words
LoremMinWords == 3
LoremMaxWords == 10

RECURSIVE LoremTake(_, _, _)
\* the loop of lines 233-237: the words pushed before the break
LoremTake(words, current_len, max_size) ==
    IF words = <<>> THEN <<>>
    ELSE LET len == current_len + ByteLen(Head(words)) + 1
         IN  IF len > max_size THEN <<Head(words)>>
             ELSE <<Head(words)>> \o LoremTake(Tail(words), len, max_size)

LoremIpsumText(words, max_size) == Join(LoremTake(words, 0, max_size), <<" ">>)

LoremWordLists ==
    {ws \in SeqsUpTo({<<"a">>, <<"b", "o">>}, LoremMaxWords - 1) : Len(ws) >= LoremMinWords}

\* noun.to_lowercase().chars().map(|c| if c.is_whitespace() { '-' } else { c })
DashWhitespace(str) == [i \in 1..Len(str) |-> IF str[i] = " " THEN "-" ELSE str[i]]

\* the texts a string sub-guess can deliver before truncation; the empty set when
\* options.choose(rng).unwrap() panics
StringTexts(string_guess, max_size) ==
    CASE string_guess.tag = "LoremIpsum" ->
            {LoremIpsumText(ws, max_size) : ws \in LoremWordLists}
      [] string_guess.tag \in {"FirstName", "LastName", "FullName", "CityName", "Address"} ->
            FakeNames
      [] string_guess.tag \in {"PhoneNumber"} ->
            {<<"5", "5", "5", "-", "1", "2">>, <<"1", "2", "3">>}
      [] string_guess.tag = "Email" ->
            {<<"a", "@", "b", ".", "c">>}
      [] string_guess.tag = "URL" ->
            {<<"w", "w", "w", ".">> \o DashWhitespace(noun) \o <<".">> \o suffix :
                noun \in {<<"a", "b">>, <<"a", " ", "b">>}, suffix \in {<<"c", "o", "m">>}}
      [] string_guess.tag = "RandomEnum" ->
            {string_guess.options[i] : i \in 1..Len(string_guess.options)}
      [] string_guess.tag = "Empty" -> {<<>>}

\* generate_time_value, formatted: the clock readings are samples
FormattedTimes(fmt, time_guess) ==
    LET dates == CASE time_guess.tag = "Now" -> {<<"2", "0", "2", "3", "-", "0", "5", "-", "1", "0">>}
                   [] time_guess.tag = "Future" -> {<<"2", "0", "2", "3", "-", "0", "5", "-", "1", "1">>,
                                                    <<"2", "0", "2", "3", "-", "0", "6", "-", "0", "9">>}
                   [] time_guess.tag = "Past" -> {<<"2", "0", "2", "3", "-", "0", "5", "-", "0", "3">>,
                                                  <<"2", "0", "2", "2", "-", "0", "5", "-", "1", "0">>}
        clock == <<"1", "2", ":", "3", "0", ":", "0", "0">>
    IN  CASE fmt = "Date" -> dates
          [] fmt = "Time" -> {clock}
          [] fmt = "Datetime" -> {d \o <<" ">> \o clock : d \in dates}

\* ((value * 100.0).round() / 100.0).to_string() for value = h / 100, h >= 0
FloatToString(h) ==
    LET whole == to_string(h \div 100)
        frac == h % 100
    IN  IF frac = 0 THEN whole
        ELSE IF frac % 10 = 0 THEN whole \o <<".", Digits[(frac \div 10) + 1]>>
        ELSE whole \o <<".", Digits[(frac \div 10) + 1], Digits[(frac % 10) + 1]>>

Panic == [ok |-> FALSE]
Value(v, counter) == [ok |-> TRUE, value |-> v, counter |-> counter]

\* generate_value that returns the formatted date or time without quotes
generate_value_bare_times(guess, auto_increment_counter) ==
    CASE guess.tag = "Int" /\ guess.sub.tag = "Range" ->
            IF guess.sub.min > guess.sub.max THEN {Panic}
            ELSE {Value(to_string(n), auto_increment_counter) : n \in guess.sub.min..guess.sub.max}
      [] guess.tag = "Int" /\ guess.sub.tag = "AutoIncrement" ->
            {Value(to_string(auto_increment_counter), auto_increment_counter + 1)}
      [] guess.tag \in {"Date", "Time", "Datetime"} ->
            {Value(t, auto_increment_counter) : t \in FormattedTimes(guess.tag, guess.sub)}
      [] guess.tag = "Bool" ->
            (CASE guess.sub.tag = "True" -> {Value(<<"1">>, auto_increment_counter)}
               [] guess.sub.tag = "False" -> {Value(<<"0">>, auto_increment_counter)}
               [] guess.sub.tag = "Random" ->
                    {Value(to_string(n), auto_increment_counter) : n \in 0..1})
      [] guess.tag = "Float" ->
            IF guess.min >= guess.max THEN {Panic}
            ELSE {Value(FloatToString(h), auto_increment_counter) :
                    h \in {guess.min * 100, guess.min * 100 + 50, guess.max * 100}}
      [] guess.tag = "String" ->
            LET texts == StringTexts(guess.sub, guess.max_size)
            IN  IF texts = {} THEN {Panic}
                ELSE {LET t == StringTruncate(str, guess.max_size)
                      IN  IF t.ok THEN Value(Quoted(t.str), auto_increment_counter) ELSE Panic :
                        str \in texts}

\* generate_value(rng, guess, auto_increment_counter): the set of its outcomes, each
\* the returned String with the counter afterwards, or a panic
generate_value(guess, auto_increment_counter) ==
    CASE guess.tag = "Int" /\ guess.sub.tag = "Range" ->
            IF guess.sub.min > guess.sub.max THEN {Panic}
            ELSE {Value(to_string(n), auto_increment_counter) : n \in guess.sub.min..guess.sub.max}
      [] guess.tag = "Int" /\ guess.sub.tag = "AutoIncrement" ->
            {Value(to_string(auto_increment_counter), auto_increment_counter + 1)}
      [] guess.tag \in {"Date", "Time", "Datetime"} ->
            {Value(Quoted(t), auto_increment_counter) : t \in FormattedTimes(guess.tag, guess.sub)}
      [] guess.tag = "Bool" ->
            (CASE guess.sub.tag = "True" -> {Value(<<"1">>, auto_increment_counter)}
               [] guess.sub.tag = "False" -> {Value(<<"0">>, auto_increment_counter)}
               [] guess.sub.tag = "Random" ->
                    {Value(to_string(n), auto_increment_counter) : n \in 0..1})
      [] guess.tag = "Float" ->
            IF guess.min >= guess.max THEN {Panic}
            ELSE {Value(FloatToString(h), auto_increment_counter) :
                    h \in {guess.min * 100, guess.min * 100 + 50, guess.max * 100}}
      [] guess.tag = "String" ->
            LET texts == StringTexts(guess.sub, guess.max_size)
            IN  IF texts = {} THEN {Panic}
                ELSE {LET t == StringTruncate(str, guess.max_size)
                      IN  IF t.ok THEN Value(Quoted(t.str), auto_increment_counter) ELSE Panic :
                        str \in texts}

-----------------------------------------------------------------------------
(* The resolved model (src/magicdraw_parser/mod.rs:27-81)                  *)

SQLTypeInt == [tag |-> "Int"]
SQLTypeDecimal == [tag |-> "Decimal"]
SQLTypeDate == [tag |-> "Date"]
SQLTypeTime == [tag |-> "Time"]
SQLTypeDatetime == [tag |-> "Datetime"]
SQLTypeFloat == [tag |-> "Float"]
SQLTypeBool == [tag |-> "Bool"]
SQLTypeChar(size) == [tag |-> "Char", size |-> size]
SQLTypeVarchar(size) == [tag |-> "Varchar", size |-> size]

SQLColumn(name, sql_type, primary_key, nullable, foreign_key, check_constraint) ==
    [name |-> name, sql_type |-> sql_type, primary_key |-> primary_key,
     nullable |-> nullable, foreign_key |-> foreign_key,
     check_constraint |-> check_constraint]

SQLTable(name, columns) == [name |-> name, columns |-> columns]

-----------------------------------------------------------------------------
(* generate_fake_entries (src/generate_sql.rs:59-171)                      *)
(*                                                                         *)
(* Indices are 1-based here and 0-based in the source.                     *)

TableName(i) == <<"t", Digits[i + 1]>>
ColumnName(j) == <<"c", Digits[j + 1]>>

\* the strategies given to the columns of the generator's input
GeneratorGuesses == {IntAutoIncrement, IntRange(0, 1)}

\* a column of the input with the strategy chosen for it: either a column without
\* foreign key and any strategy, or a foreign key to any named table and column
\* (its strategy is never read)
InputColumns ==
    {[foreign_key |-> None, guess |-> g] : g \in GeneratorGuesses}
    \cup {[foreign_key |-> Some(<<TableName(i), ColumnName(j)>>), guess |-> IntRange(0, 1)] :
            i \in 1..MaxTables, j \in 1..MaxColumns}

InputTables == {cs \in SeqsUpTo(InputColumns, MaxColumns) : Len(cs) >= 1}

InputSchemas == {ts \in SeqsUpTo(InputTables, MaxTables) : Len(ts) >= 1}

SchemaTables(schema) ==
    [t \in 1..Len(schema) |->
        SQLTable(TableName(t),
                 [c \in 1..Len(schema[t]) |->
                    SQLColumn(ColumnName(c), SQLTypeInt, FALSE, FALSE,
                              schema[t][c].foreign_key, None)])]

SchemaGuesses(schema) ==
    [t \in 1..Len(schema) |-> [c \in 1..Len(schema[t]) |-> schema[t][c].guess]]

\* the variables of the other operations while one operation is examined
GenIdle ==
    /\ tables = <<>> /\ value_guessess = <<>> /\ rows_per_table = 0
    /\ all_foreign_columns = <<>> /\ all_entries = <<>>
    /\ entries_with_foreign_keys = {} /\ entries_with_foreign_keys_copy = {}
    /\ before_retain = 0 /\ todo = {} /\ passes = 0 /\ pc = "idle" /\ result = None
ValueIdle == gv_guess = None /\ gv_counter = 0 /\ gv_outcome = None
GuessIdle == gg_column = None /\ gg_guess = None
CheckIdle == check_parts = None /\ check_body = None /\ check_result = None
ProjectIdle ==
    /\ project_input = None /\ project_result = None
    /\ collections = <<>> /\ scripts_done = 0 /\ project_pc = "idle"
AppIdle ==
    /\ current_collection = None /\ current_guessess = <<>>
    /\ currently_shown_table = 0 /\ all_good_confirmed = FALSE
    /\ generated_sql = None /\ self_rows_per_table = 0 /\ local_storage = None
    /\ app_pc = "idle" /\ before_generate = None /\ generate_outcome = None

ParserIdle ==
    /\ xml_events = <<>> /\ xml_consumed = 0 /\ xml_depth = 0 /\ xml_frames = <<>>
    /\ xml_readers = <<>> /\ xml_visits = <<>> /\ xml_returns = <<>>
    /\ xml_outcome = None /\ document = None /\ document_result = None

GenInit ==
    /\ \E schema \in InputSchemas :
        /\ tables = SchemaTables(schema)
        /\ value_guessess = SchemaGuesses(schema)
    /\ rows_per_table \in 0..MaxRows
    /\ all_foreign_columns = <<>>
    /\ all_entries = <<>>
    /\ entries_with_foreign_keys = {}
    /\ entries_with_foreign_keys_copy = {}
    /\ before_retain = 0
    /\ todo = {}
    /\ passes = 0
    /\ pc = "start"
    /\ result = None

\* lines 80-88: the (table_idx, column_idx) a foreign key names, 0 where the
\* lookup finds nothing (.expect panics)
ForeignTarget(foreign_key) ==
    LET table_idx == FindByName(tables, foreign_key[1])
        column_idx == IF table_idx = 0 THEN 0
                      ELSE FindByName(tables[table_idx].columns, foreign_key[2])
    IN  <<table_idx, column_idx>>

RECURSIVE ForeignColumnsFrom(_, _)
\* lines 77-91: the (i, table_idx, column_idx) of the foreign-key columns of
\* columns[i..], in column order
ForeignColumnsFrom(columns, i) ==
    IF i > Len(columns) THEN <<>>
    ELSE IF IsSome(columns[i].foreign_key)
         THEN LET target == ForeignTarget(Unwrap(columns[i].foreign_key))
              IN  <<[column_idx |-> i, foreign_table_idx |-> target[1],
                     foreign_column_idx |-> target[2]]>>
                  \o ForeignColumnsFrom(columns, i + 1)
         ELSE ForeignColumnsFrom(columns, i + 1)

ForeignColumns(table) == ForeignColumnsFrom(table.columns, 1)

\* some .expect("Foreign table not found") / .expect("Foreign column not found") fails
ForeignLookupPanics ==
    \E t \in 1..Len(tables) : \E k \in 1..Len(ForeignColumns(tables[t])) :
        \/ ForeignColumns(tables[t])[k].foreign_table_idx = 0
        \/ ForeignColumns(tables[t])[k].foreign_column_idx = 0

RECURSIVE ColumnRuns(_, _, _)
\* lines 100-109 for a column without foreign key: the values of its rows in row
\* order, one auto_increment_counter for the column; Panic when generate_value panics
ColumnRuns(value_guess, rows, auto_increment_counter) ==
    IF rows = 0 THEN {[ok |-> TRUE, values |-> <<>>]}
    ELSE UNION {
            IF ~o.ok THEN {Panic}
            ELSE {IF rest.ok THEN [ok |-> TRUE, values |-> <<o.value>> \o rest.values]
                             ELSE Panic :
                    rest \in ColumnRuns(value_guess, rows - 1, o.counter)} :
            o \in generate_value(value_guess, auto_increment_counter)}

\* the cells of the input, as (table_idx, column_idx)
Cells == UNION {{<<t, c>> : c \in 1..Len(tables[t].columns)} : t \in 1..Len(tables)}

Blank == <<>>

\* CellRuns with the counter of a column starting at 1
CellRunsFromOne(tc) ==
    IF IsSome(tables[tc[1]].columns[tc[2]].foreign_key)
    THEN {[ok |-> TRUE, values |-> [r \in 1..rows_per_table |-> Blank]]}
    ELSE ColumnRuns(value_guessess[tc[1]][tc[2]], rows_per_table, 1)

\* lines 96-111 for one column: "" in every row of a foreign-key column
CellRuns(tc) ==
    IF IsSome(tables[tc[1]].columns[tc[2]].foreign_key)
    THEN {[ok |-> TRUE, values |-> [r \in 1..rows_per_table |-> Blank]]}
    ELSE ColumnRuns(value_guessess[tc[1]][tc[2]], rows_per_table, 0)

\* lines 64-111: the lookups of the foreign keys, then every cell generated
Generate ==
    /\ pc = "start"
    /\ IF ForeignLookupPanics
       THEN /\ pc' = "panicked"
            /\ UNCHANGED <<all_foreign_columns, all_entries, entries_with_foreign_keys>>
       ELSE \E runs \in [Cells -> UNION {CellRuns(tc) : tc \in Cells}] :
            /\ \A tc \in Cells : runs[tc] \in CellRuns(tc)
            /\ all_foreign_columns' = [t \in 1..Len(tables) |-> ForeignColumns(tables[t])]
            /\ IF \E tc \in Cells : ~runs[tc].ok
               THEN /\ pc' = "panicked"
                    /\ UNCHANGED <<all_entries, entries_with_foreign_keys>>
               ELSE /\ all_entries' =
                        [t \in 1..Len(tables) |->
                            [r \in 1..rows_per_table |->
                                [c \in 1..Len(tables[t].columns) |-> runs[<<t, c>>].values[r]]]]
                    /\ entries_with_foreign_keys' =
                        {<<t, r>> : t \in {u \in 1..Len(tables) : ForeignColumns(tables[u]) # <<>>},
                                    r \in 1..rows_per_table}
                    /\ pc' = "loop"
    /\ UNCHANGED <<tables, value_guessess, rows_per_table, entries_with_foreign_keys_copy,
                   before_retain, todo, passes, result>>
    /\ UNCHANGED <<valueVars, guessVars, checkVars, projectVars, appVars, parserVars>>

\* the rows offered when the filter of line 126 is applied to every target column
AvailableRowsAlwaysFiltered(foreign_table_idx, foreign_column_idx) ==
    {i \in 1..Len(all_entries[foreign_table_idx]) :
        <<foreign_table_idx, i>> \in entries_with_foreign_keys_copy}

\* line 123: the foreign column is itself a foreign-key column of the foreign table
IsForeignColumn(foreign_table_idx, foreign_column_idx) ==
    \E k \in 1..Len(all_foreign_columns[foreign_table_idx]) :
        all_foreign_columns[foreign_table_idx][k].column_idx = foreign_column_idx

\* the rows offered when the filter of line 126 keeps the rows that are not in the
\* copy of the set
AvailableRowsResolved(foreign_table_idx, foreign_column_idx) ==
    IF IsForeignColumn(foreign_table_idx, foreign_column_idx)
    THEN {i \in 1..Len(all_entries[foreign_table_idx]) :
            <<foreign_table_idx, i>> \notin entries_with_foreign_keys_copy}
    ELSE 1..Len(all_entries[foreign_table_idx])

\* lines 123-133: the rows of the foreign table whose value is offered
AvailableRows(foreign_table_idx, foreign_column_idx) ==
    IF IsForeignColumn(foreign_table_idx, foreign_column_idx)
    THEN {i \in 1..Len(all_entries[foreign_table_idx]) :
            <<foreign_table_idx, i>> \in entries_with_foreign_keys_copy}
    ELSE 1..Len(all_entries[foreign_table_idx])

\* available_values (lines 119-133), read from the entries as they are when the
\* closure reaches the column
available_values(entries, foreign_table_idx, foreign_column_idx) ==
    {entries[foreign_table_idx][i][foreign_column_idx] :
        i \in AvailableRows(foreign_table_idx, foreign_column_idx)}

\* the closure leaving the loop of line 118 after the first foreign-key column
RetainClosureFirstColumn(entries, table_idx, entry_idx, k) ==
    IF k > Len(all_foreign_columns[table_idx])
    THEN {[entries |-> entries, keep |-> FALSE]}
    ELSE LET fc == all_foreign_columns[table_idx][k]
             pool == available_values(entries, fc.foreign_table_idx, fc.foreign_column_idx)
         IN  IF pool = {}
             THEN {[entries |-> entries, keep |-> TRUE]}
             ELSE {[entries |-> [entries EXCEPT ![table_idx][entry_idx][fc.column_idx] = chosen_value],
                    keep |-> FALSE] : chosen_value \in pool}

RECURSIVE RetainClosureColumnOne(_, _, _, _)
\* the closure writing the chosen value to the first cell of the row
RetainClosureColumnOne(entries, table_idx, entry_idx, k) ==
    IF k > Len(all_foreign_columns[table_idx])
    THEN {[entries |-> entries, keep |-> FALSE]}
    ELSE LET fc == all_foreign_columns[table_idx][k]
             pool == available_values(entries, fc.foreign_table_idx, fc.foreign_column_idx)
         IN  IF pool = {}
             THEN {[entries |-> entries, keep |-> TRUE]}
             ELSE UNION {RetainClosureColumnOne(
                            [entries EXCEPT ![table_idx][entry_idx][1] = chosen_value],
                            table_idx, entry_idx, k + 1) :
                         chosen_value \in pool}

RECURSIVE RetainClosure(_, _, _, _)
\* the closure given to retain (lines 117-145) for (table_idx, entry_idx), from the
\* k-th foreign-key column on: the entries it can leave and whether it keeps the
\* element in the set
RetainClosure(entries, table_idx, entry_idx, k) ==
    IF k > Len(all_foreign_columns[table_idx])
    THEN {[entries |-> entries, keep |-> FALSE]}
    ELSE LET fc == all_foreign_columns[table_idx][k]
             pool == available_values(entries, fc.foreign_table_idx, fc.foreign_column_idx)
         IN  IF pool = {}
             THEN {[entries |-> entries, keep |-> TRUE]}
             ELSE UNION {RetainClosure(
                            [entries EXCEPT ![table_idx][entry_idx][fc.column_idx] = chosen_value],
                            table_idx, entry_idx, k + 1) :
                         chosen_value \in pool}

\* before_retain == entries_with_foreign_keys.len() (line 148)
Stalled(before, after) == before = after

ErrFailedToResolve == [ok |-> FALSE, error |-> "Failed to resolve foreign keys"]

\* lines 153-170: one INSERT statement per table, in table order
InsertStatements ==
    [ok |-> TRUE,
     statements |-> [t \in 1..Len(tables) |->
        [table |-> tables[t].name,
         column_names |-> [c \in 1..Len(tables[t].columns) |-> tables[t].columns[c].name],
         entries |-> all_entries[t]]]]

\* lines 113-115: the loop is entered with elements left
BeginPass ==
    /\ pc = "loop"
    /\ entries_with_foreign_keys # {}
    /\ entries_with_foreign_keys_copy' = entries_with_foreign_keys
    /\ before_retain' = Cardinality(entries_with_foreign_keys)
    /\ todo' = entries_with_foreign_keys
    /\ passes' = passes + 1
    /\ pc' = "retain"
    /\ UNCHANGED <<tables, value_guessess, rows_per_table, all_foreign_columns,
                   all_entries, entries_with_foreign_keys, result>>
    /\ UNCHANGED <<valueVars, guessVars, checkVars, projectVars, appVars, parserVars>>

\* lines 117-145: retain visits one more element, in the order of the HashSet
RetainStep ==
    /\ pc = "retain"
    /\ \E e \in todo :
        \E o \in RetainClosure(all_entries, e[1], e[2], 1) :
            /\ all_entries' = o.entries
            /\ entries_with_foreign_keys' =
                IF o.keep THEN entries_with_foreign_keys
                ELSE entries_with_foreign_keys \ {e}
            /\ todo' = todo \ {e}
    /\ UNCHANGED <<tables, value_guessess, rows_per_table, all_foreign_columns,
                   entries_with_foreign_keys_copy, before_retain, passes, pc, result>>
    /\ UNCHANGED <<valueVars, guessVars, checkVars, projectVars, appVars, parserVars>>

\* lines 147-151: retain is over
EndPass ==
    /\ pc = "retain"
    /\ todo = {}
    /\ IF Stalled(before_retain, Cardinality(entries_with_foreign_keys))
       THEN pc' = "failed" /\ result' = Some(ErrFailedToResolve)
       ELSE pc' = "loop" /\ UNCHANGED result
    /\ UNCHANGED <<tables, value_guessess, rows_per_table, all_foreign_columns,
                   all_entries, entries_with_foreign_keys,
                   entries_with_foreign_keys_copy, before_retain, todo, passes>>
    /\ UNCHANGED <<valueVars, guessVars, checkVars, projectVars, appVars, parserVars>>

\* lines 113 and 153-170: nothing is left, the statements are returned
Emit ==
    /\ pc = "loop"
    /\ entries_with_foreign_keys = {}
    /\ pc' = "done"
    /\ result' = Some(InsertStatements)
    /\ UNCHANGED <<tables, value_guessess, rows_per_table, all_foreign_columns,
                   all_entries, entries_with_foreign_keys,
                   entries_with_foreign_keys_copy, before_retain, todo, passes>>
    /\ UNCHANGED <<valueVars, guessVars, checkVars, projectVars, appVars, parserVars>>

\* The loop with the pool of a foreign-key target column restricted to the rows
\* that had left the set when the pass began, and without the check of line 148
AvailableRowsFilled(foreign_table_idx, foreign_column_idx) ==
    IF IsForeignColumn(foreign_table_idx, foreign_column_idx)
    THEN {i \in 1..Len(all_entries[foreign_table_idx]) :
            <<foreign_table_idx, i>> \notin entries_with_foreign_keys_copy}
    ELSE 1..Len(all_entries[foreign_table_idx])

RECURSIVE RetainClosureFilled(_, _, _, _)
RetainClosureFilled(entries, table_idx, entry_idx, k) ==
    IF k > Len(all_foreign_columns[table_idx])
    THEN {[entries |-> entries, keep |-> FALSE]}
    ELSE LET fc == all_foreign_columns[table_idx][k]
             pool == {entries[fc.foreign_table_idx][i][fc.foreign_column_idx] :
                        i \in AvailableRowsFilled(fc.foreign_table_idx, fc.foreign_column_idx)}
         IN  IF pool = {}
             THEN {[entries |-> entries, keep |-> TRUE]}
             ELSE UNION {RetainClosureFilled(
                            [entries EXCEPT ![table_idx][entry_idx][fc.column_idx] = chosen_value],
                            table_idx, entry_idx, k + 1) :
                         chosen_value \in pool}

RetainStepFilled ==
    /\ pc = "retain"
    /\ \E e \in todo :
        \E o \in RetainClosureFilled(all_entries, e[1], e[2], 1) :
            /\ all_entries' = o.entries
            /\ entries_with_foreign_keys' =
                IF o.keep THEN entries_with_foreign_keys
                ELSE entries_with_foreign_keys \ {e}
            /\ todo' = todo \ {e}
    /\ UNCHANGED <<tables, value_guessess, rows_per_table, all_foreign_columns,
                   entries_with_foreign_keys_copy, before_retain, passes, pc, result>>
    /\ UNCHANGED <<valueVars, guessVars, checkVars, projectVars, appVars, parserVars>>

EndPassUnguarded ==
    /\ pc = "retain"
    /\ todo = {}
    /\ pc' = "loop"
    /\ UNCHANGED <<tables, value_guessess, rows_per_table, all_foreign_columns,
                   all_entries, entries_with_foreign_keys,
                   entries_with_foreign_keys_copy, before_retain, todo, passes, result>>
    /\ UNCHANGED <<valueVars, guessVars, checkVars, projectVars, appVars, parserVars>>

NextUnguarded == Generate \/ BeginPass \/ RetainStepFilled \/ EndPassUnguarded \/ Emit

Init == GenInit /\ ValueIdle /\ GuessIdle /\ CheckIdle /\ ProjectIdle /\ AppIdle /\ ParserIdle

Next == Generate \/ BeginPass \/ RetainStep \/ EndPass \/ Emit

Spec == Init /\ [][Next]_vars

-----------------------------------------------------------------------------
(* Properties of generate_fake_entries                                     *)

\* the call has returned
Returned == pc \in {"done", "failed"}

\* the foreign-key columns of table t, as indices of its columns
ForeignKeyColumnsOf(t) ==
    {c \in 1..Len(tables[t].columns) : IsSome(tables[t].columns[c].foreign_key)}

\* the tables t2 and columns c2 that the foreign key of column c of table t names
NamedTargets(t, c) ==
    {tc \in Cells : /\ tables[tc[1]].name = Unwrap(tables[t].columns[c].foreign_key)[1]
                    /\ tables[tc[1]].columns[tc[2]].name = Unwrap(tables[t].columns[c].foreign_key)[2]}

AllForeignKeysNameExisting ==
    \A t \in 1..Len(tables) : \A c \in ForeignKeyColumnsOf(t) : NamedTargets(t, c) # {}

ReturnedEntries(t) == Unwrap(result).statements[t].entries

\* C1: when every foreign key names an existing table and column, the call either
\* fails with "Failed to resolve foreign keys", or returns rows_per_table rows for
\* every table in which no foreign-key cell is blank and every foreign-key cell
\* holds the value that the target column has in some returned row of the target table.
C1_RowsAndForeignKeysOrError ==
    (AllForeignKeysNameExisting /\ Returned) =>
        \/ pc = "failed" /\ result = Some(ErrFailedToResolve)
        \/ /\ pc = "done"
           /\ \A t \in 1..Len(tables) :
                /\ Len(ReturnedEntries(t)) = rows_per_table
                /\ \A r \in 1..rows_per_table : \A c \in ForeignKeyColumnsOf(t) :
                    /\ ReturnedEntries(t)[r][c] # Blank
                    /\ \E tc \in NamedTargets(t, c) : \E r2 \in 1..rows_per_table :
                        ReturnedEntries(t)[r][c] = ReturnedEntries(tc[1])[r2][tc[2]]

\* C2: during a pass, the rows offered for a foreign-key column whose target column is
\* itself a foreign-key column of the target table are rows that were not in the
\* pending set when the pass began.
C2_PoolHoldsOnlyResolvedRows ==
    pc = "retain" =>
        \A e \in todo : \A k \in 1..Len(all_foreign_columns[e[1]]) :
            LET fc == all_foreign_columns[e[1]][k]
            IN  IsForeignColumn(fc.foreign_table_idx, fc.foreign_column_idx) =>
                    \A i \in AvailableRows(fc.foreign_table_idx, fc.foreign_column_idx) :
                        <<fc.foreign_table_idx, i>> \notin entries_with_foreign_keys_copy

\* two tables of one column each, the foreign key of each naming the column of the other
IsTwoTableCycle ==
    /\ Len(tables) = 2
    /\ Len(tables[1].columns) = 1
    /\ Len(tables[2].columns) = 1
    /\ tables[1].columns[1].foreign_key = Some(<<tables[2].name, tables[2].columns[1].name>>)
    /\ tables[2].columns[1].foreign_key = Some(<<tables[1].name, tables[1].columns[1].name>>)

\* C3: for a two-table foreign-key cycle and at least one row, the call returns
\* the error "Failed to resolve foreign keys" and no rows.
C3_CycleFails ==
    (IsTwoTableCycle /\ rows_per_table >= 1 /\ Returned) =>
        pc = "failed" /\ result = Some(ErrFailedToResolve)

\* the size of the pending set when the loop is first reached
InitialPending ==
    Cardinality({t \in 1..Len(tables) : ForeignKeyColumnsOf(t) # {}}) * rows_per_table

\* a natural number that every step of the call after Generate decreases
Variant ==
    LET W == Len(tables) * rows_per_table + 2
    IN  CASE pc = "start" -> (W + 1) * W
          [] pc = "loop" -> Cardinality(entries_with_foreign_keys) * W + (W - 1)
          [] pc = "retain" -> before_retain * W + Cardinality(todo)
          [] OTHER -> 0

\* C4: the loop terminates: every step of the call decreases Variant, a pass that
\* ends either has removed an element of the pending set or ends the call with the
\* error, and the number of passes is at most InitialPending + 1.
C4_LoopTerminates ==
    /\ [][Variant' < Variant]_vars
    /\ [][(pc = "retain" /\ pc' # "retain") =>
            \/ Cardinality(entries_with_foreign_keys') < before_retain
            \/ pc' = "failed" /\ result' = Some(ErrFailedToResolve)]_vars
    /\ [](pc # "start" => passes <= InitialPending + 1)

C4_Witness == pc = "loop" /\ passes >= 1 /\ rows_per_table >= 2

\* the columns without foreign key whose strategy is Int(AutoIncrement)
AutoIncrementColumns ==
    {tc \in Cells : /\ ~IsSome(tables[tc[1]].columns[tc[2]].foreign_key)
                    /\ value_guessess[tc[1]][tc[2]] = IntAutoIncrement}

\* C5: the values of an AutoIncrement column are 0, 1, ..., rows_per_table - 1 in row
\* order, and in the returned rows every cell of a foreign-key column that names
\* such a column holds one of them.
C5_AutoIncrementCountsFromZero ==
    \A tc \in AutoIncrementColumns :
        /\ pc \in {"loop", "retain", "done", "failed"} =>
            \A r \in 1..rows_per_table : all_entries[tc[1]][r][tc[2]] = <<Digits[r]>>
        /\ pc = "done" =>
            \A t \in 1..Len(tables) : \A c \in ForeignKeyColumnsOf(t) :
                NamedTargets(t, c) = {tc} =>
                    \A r \in 1..rows_per_table :
                        \E n \in 1..rows_per_table : ReturnedEntries(t)[r][c] = <<Digits[n]>>

C5_Witness ==
    /\ pc = "done"
    /\ rows_per_table = 2
    /\ \E tc \in AutoIncrementColumns :
        \E t \in 1..Len(tables) : \E c \in ForeignKeyColumnsOf(t) :
            /\ t # tc[1]
            /\ NamedTargets(t, c) = {tc}
            /\ ReturnedEntries(t)[1][c] # ReturnedEntries(t)[2][c]


\* the element retain visits in this step
Visited == CHOOSE e \in todo : e \notin todo'

\* the pool of the k-th foreign-key column of table_idx is empty
PoolEmpty(table_idx, k) ==
    AvailableRows(all_foreign_columns[table_idx][k].foreign_table_idx,
                  all_foreign_columns[table_idx][k].foreign_column_idx) = {}

RECURSIVE ReachesGeneratedColumn(_, _, _)
\* following the foreign keys from column (t, c) ends, within n steps, at a column
\* without foreign key
ReachesGeneratedColumn(t, c, n) ==
    IF ~IsSome(tables[t].columns[c].foreign_key) THEN TRUE
    ELSE IF n = 0 THEN FALSE
    ELSE LET target == ForeignTarget(Unwrap(tables[t].columns[c].foreign_key))
         IN  ReachesGeneratedColumn(target[1], target[2], n - 1)

\* some foreign key lies on, or leads into, a cycle of foreign keys: the rows of its
\* target never become eligible
HasUnresolvableForeignKey ==
    \E tc \in Cells : ~ReachesGeneratedColumn(tc[1], tc[2], Cardinality(Cells))

\* C13: the call fails exactly when the foreign keys cannot be resolved (a cycle, or
\* a target without eligible rows), the failure is 'Failed to resolve foreign keys'
\* raised at the end of a pass that removed nothing, and no SQL is returned with it.
C13_FailsExactlyWhenUnresolvable ==
    Returned =>
        /\ pc = "failed" <=> (rows_per_table >= 1 /\ HasUnresolvableForeignKey)
        /\ pc = "failed" =>
              /\ result = Some(ErrFailedToResolve)
              /\ before_retain = Cardinality(entries_with_foreign_keys)


\* the k-th foreign-key column of table t targets a column without foreign key
TargetsGeneratedColumn(t, k) ==
    ~IsForeignColumn(all_foreign_columns[t][k].foreign_table_idx,
                     all_foreign_columns[t][k].foreign_column_idx)

\* C14: the pool of a foreign-key column whose target column is no foreign-key
\* column is the target column's value in all rows_per_table rows of the target
\* table, none of them blank and none of them changed since it was generated; a row
\* whose foreign keys all target such columns is out of the pending set when the
\* first pass is over.
C14_GeneratedTargetOffersAllRows ==
    /\ [](pc \in {"loop", "retain"} =>
            \A t \in 1..Len(tables) : \A k \in 1..Len(all_foreign_columns[t]) :
                TargetsGeneratedColumn(t, k) =>
                    LET fc == all_foreign_columns[t][k]
                    IN  /\ available_values(all_entries, fc.foreign_table_idx,
                                            fc.foreign_column_idx)
                              = {all_entries[fc.foreign_table_idx][i][fc.foreign_column_idx] :
                                    i \in 1..rows_per_table}
                        /\ Blank \notin available_values(all_entries, fc.foreign_table_idx,
                                                         fc.foreign_column_idx))
    /\ [][(pc \in {"loop", "retain"}) =>
            \A tc \in Cells : ~IsSome(tables[tc[1]].columns[tc[2]].foreign_key) =>
                \A r \in 1..rows_per_table :
                    (all_entries'[tc[1]][r][tc[2]] = all_entries[tc[1]][r][tc[2]])]_vars
    /\ []((passes >= 1 /\ pc \in {"loop", "done", "failed"}) =>
            \A t \in 1..Len(tables) :
                (\A k \in 1..Len(all_foreign_columns[t]) : TargetsGeneratedColumn(t, k)) =>
                    \A r \in 1..rows_per_table : <<t, r>> \notin entries_with_foreign_keys)

\* with two rows per table, a row has been given the generated value of a target row
\* while the rows of the target table are themselves still pending
C14_Witness ==
    /\ pc = "retain"
    /\ passes = 1
    /\ rows_per_table = 2
    /\ \E t \in 1..Len(tables) : \E r \in 1..rows_per_table :
        /\ Len(all_foreign_columns[t]) = 1
        /\ TargetsGeneratedColumn(t, 1)
        /\ <<t, r>> \notin entries_with_foreign_keys
        /\ LET fc == all_foreign_columns[t][1]
           IN  /\ fc.foreign_table_idx # t
               /\ \A i \in 1..rows_per_table :
                      <<fc.foreign_table_idx, i>> \in entries_with_foreign_keys
               /\ all_entries[t][r][fc.column_idx] =
                      all_entries[fc.foreign_table_idx][2][fc.foreign_column_idx]
               /\ all_entries[t][r][fc.column_idx] # Blank



\* some table has a foreign-key column
HasForeignKey == \E t \in 1..Len(tables) : ForeignKeyColumnsOf(t) # {}

Written ==
    {trc \in UNION {{<<t, r, c>> : r \in 1..rows_per_table, c \in 1..Len(tables[t].columns)} :
                        t \in 1..Len(tables)} :
        all_entries'[trc[1]][trc[2]][trc[3]] # all_entries[trc[1]][trc[2]][trc[3]]}

\* C29: after the cells were generated, a step writes only to foreign-key cells of
\* rows that were in the pending set when the pass began and are still in it: the
\* cells of the columns without foreign key keep their generated value, and no cell
\* of a row that has left the pending set is changed.
C29_PassesWriteOnlyPendingForeignCells ==
    [][(pc # "start") =>
        /\ Len(all_entries') = Len(all_entries)
        /\ \A t \in 1..Len(tables) : Len(all_entries'[t]) = Len(all_entries[t])
        /\ \A trc \in Written :
            /\ pc = "retain"
            /\ trc[3] \in ForeignKeyColumnsOf(trc[1])
            /\ <<trc[1], trc[2]>> \in entries_with_foreign_keys_copy
            /\ <<trc[1], trc[2]>> \in entries_with_foreign_keys]_vars

\* a row with a generated cell and a foreign-key cell has left the pending set with
\* its foreign-key cell written, while a row of the pass is still to be visited
C29_Witness ==
    /\ pc = "retain"
    /\ todo # {}
    /\ \E t \in 1..Len(tables) : \E r \in 1..rows_per_table :
        /\ <<t, r>> \in entries_with_foreign_keys_copy \ entries_with_foreign_keys
        /\ ForeignKeyColumnsOf(t) # {}
        /\ ForeignKeyColumnsOf(t) # 1..Len(tables[t].columns)
        /\ \A c \in ForeignKeyColumnsOf(t) : all_entries[t][r][c] # Blank

-----------------------------------------------------------------------------
(* generate_fake_entries over columns of every kind of strategy             *)

\* the strategies given to the columns without foreign key
RowGuesses ==
    {IntAutoIncrement, IntRange(0, 1), FloatGuess(0, 1),
     BoolGuess("Random"), BoolGuess("True"),
     DateGuess("Now"), TimeGuess("Past"), DatetimeGuess("Future"),
     StringGuess(4, "FirstName"), StringGuess(2, "LoremIpsum"), StringGuess(0, "Empty"),
     StringRandomEnum(4, <<<<"x">>, <<"o", "'", "k">>>>)}

\* the column type a strategy is offered for (components/generator_picker.rs)
TypeOfGuess(guess) ==
    IF guess.tag = "String" THEN SQLTypeVarchar(guess.max_size) ELSE [tag |-> guess.tag]

\* t1(c1, c2) and, in some inputs, t2(c1): c1 of t1 has no foreign key, the others
\* have none or name c1 of t1
RowColumns ==
    {[foreign_key |-> None, guess |-> g] : g \in RowGuesses}
    \cup {[foreign_key |-> Some(<<TableName(1), ColumnName(1)>>), guess |-> IntRange(0, 1)]}

RowSchemas ==
    {<<<<first, second>>>> :
        first \in {c \in RowColumns : c.foreign_key = None}, second \in RowColumns}
    \cup {<<<<first>>, <<other>>>> :
            first \in {c \in RowColumns : c.foreign_key = None},
            other \in {c \in RowColumns : c.foreign_key # None}}

RowTables(schema) ==
    [t \in 1..Len(schema) |->
        SQLTable(TableName(t),
                 [c \in 1..Len(schema[t]) |->
                    SQLColumn(ColumnName(c), TypeOfGuess(schema[t][c].guess), FALSE, FALSE,
                              schema[t][c].foreign_key, None)])]

RowsInit ==
    /\ \E schema \in RowSchemas :
        /\ tables = RowTables(schema)
        /\ value_guessess = SchemaGuesses(schema)
    /\ rows_per_table \in 0..MaxRows
    /\ all_foreign_columns = <<>>
    /\ all_entries = <<>>
    /\ entries_with_foreign_keys = {}
    /\ entries_with_foreign_keys_copy = {}
    /\ before_retain = 0
    /\ todo = {}
    /\ passes = 0
    /\ pc = "start"
    /\ result = None

InitRows == RowsInit /\ ValueIdle /\ GuessIdle /\ CheckIdle /\ ProjectIdle /\ AppIdle /\ ParserIdle

NextRows == Generate \/ BeginPass \/ RetainStep \/ EndPass \/ Emit

SpecRows == InitRows /\ [][NextRows]_vars

\* the cells of the columns without foreign key in the returned rows, as
\* (table_idx, row, column_idx)
ReturnedGeneratedCells ==
    {trc \in UNION {{<<t, r, c>> : r \in 1..rows_per_table, c \in 1..Len(tables[t].columns)} :
                        t \in 1..Len(tables)} :
        tables[trc[1]].columns[trc[3]].foreign_key = None}

HasQuote(v) == \E i \in 1..Len(v) : v[i] = Quote

InQuotes(v) == Len(v) >= 2 /\ v[1] = Quote /\ v[Len(v)] = Quote

QuotedStrategies == {"String", "Date", "Time", "Datetime"}

-----------------------------------------------------------------------------
(* generate_value on its own: any strategy, any counter                    *)

MaxSize == 4
MaxOptions == 2
MaxCounter == 2

\* the options a RandomEnum can list
EnumOptions ==
    {<<"x">>, <<"y", "e", "s">>, <<"U2">>, <<"a", "U2", "b">>, <<"l", "o", "n", "g", "e", "r">>}

ValueGuesses ==
    {StringGuess(n, s) : n \in 0..MaxSize, s \in SQLStringValueGuessPlain}
    \cup {StringRandomEnum(n, options) :
            n \in 0..MaxSize, options \in SeqsUpTo(EnumOptions, MaxOptions)}
    \cup {IntAutoIncrement, IntRange(0, 1), IntRange(1, 0), FloatGuess(0, 1), FloatGuess(1, 1)}
    \cup {BoolGuess(b) : b \in SQLBoolValueGuess}
    \cup {DateGuess(t) : t \in SQLTimeValueGuess}
    \cup {TimeGuess(t) : t \in SQLTimeValueGuess}
    \cup {DatetimeGuess(t) : t \in SQLTimeValueGuess}

ValueInit ==
    /\ gv_guess \in {Some(g) : g \in ValueGuesses}
    /\ gv_counter \in 0..MaxCounter
    /\ gv_outcome = None

\* one call of generate_value
GenerateValue ==
    /\ gv_guess # None
    /\ gv_outcome = None
    /\ \E o \in generate_value(Unwrap(gv_guess), gv_counter) : gv_outcome' = Some(o)
    /\ UNCHANGED <<gv_guess, gv_counter>>
    /\ UNCHANGED <<genVars, guessVars, checkVars, projectVars, appVars, parserVars>>

InitValue == GenIdle /\ ValueInit /\ GuessIdle /\ CheckIdle /\ ProjectIdle /\ AppIdle /\ ParserIdle

NextValue == GenerateValue

SpecValue == InitValue /\ [][NextValue]_vars

\* the call returned a value for a String strategy
ReturnedString ==
    /\ gv_outcome # None
    /\ Unwrap(gv_outcome).ok
    /\ Unwrap(gv_guess).tag = "String"

\* the returned value without its first and its last character
Unquoted(v) == SubSeq(v, 2, Len(v) - 1)

\* C6: a value returned for String(max_size, _) is a text of at most max_size bytes
\* (so at most max_size characters) between two single quotes.
C6_StringWithinMaxSize ==
    ReturnedString =>
        LET v == Unwrap(gv_outcome).value
        IN  /\ Len(v) >= 2
            /\ v[1] = Quote
            /\ v[Len(v)] = Quote
            /\ ByteLen(Unquoted(v)) <= Unwrap(gv_guess).max_size
            /\ Len(Unquoted(v)) <= Unwrap(gv_guess).max_size

\* a lorem ipsum text that was cut to max_size
C6_LoremIpsumCut ==
    /\ ReturnedString
    /\ Unwrap(gv_guess).max_size = 2
    /\ Unwrap(gv_guess).sub.tag = "LoremIpsum"
    /\ Unwrap(gv_outcome).value = Quoted(<<"a", " ">>)

\* a RandomEnum option that was cut to max_size
C6_Witness ==
    /\ ReturnedString
    /\ Unwrap(gv_guess).max_size = 2
    /\ Unwrap(gv_guess).sub.tag = "RandomEnum"
    /\ Unwrap(gv_outcome).value = Quoted(<<"y", "e">>)

-----------------------------------------------------------------------------
(* generate_guess and generate_string_guess (src/generate_sql.rs:284-359)  *)

OneOf(options) == [tag |-> "OneOf", options |-> options]
Freeform(str) == [tag |-> "Freeform", body |-> str]

UpperLetters == <<"A", "B", "C", "D", "E", "F", "G", "H", "I", "J", "K", "L", "M",
                  "N", "O", "P", "Q", "R", "S", "T", "U", "V", "W", "X", "Y", "Z">>
LowerLetters == <<"a", "b", "c", "d", "e", "f", "g", "h", "i", "j", "k", "l", "m",
                  "n", "o", "p", "q", "r", "s", "t", "u", "v", "w", "x", "y", "z">>

\* str::to_lowercase on ASCII text
to_lowercase(str) ==
    [i \in 1..Len(str) |->
        IF \E k \in 1..Len(UpperLetters) : UpperLetters[k] = str[i]
        THEN LowerLetters[CHOOSE k \in 1..Len(UpperLetters) : UpperLetters[k] = str[i]]
        ELSE str[i]]

\* str::contains(pat)
contains(str, pat) ==
    \E i \in 1..(Len(str) - Len(pat) + 1) : SubSeq(str, i, i + Len(pat) - 1) = pat

\* generate_string_guess with the tests for 'email' and 'address' exchanged
generate_string_guess_email_first(column) ==
    IF IsSome(column.check_constraint)
    THEN IF Unwrap(column.check_constraint).tag = "OneOf"
         THEN [tag |-> "RandomEnum", options |-> Unwrap(column.check_constraint).options]
         ELSE [tag |-> "LoremIpsum"]
    ELSE LET name == to_lowercase(column.name)
         IN  IF contains(name, <<"f", "i", "r", "s", "t">>) /\ contains(name, <<"n", "a", "m", "e">>)
                THEN [tag |-> "FirstName"]
             ELSE IF (contains(name, <<"l", "a", "s", "t">>) /\ contains(name, <<"n", "a", "m", "e">>))
                     \/ contains(name, <<"s", "u", "r", "n", "a", "m", "e">>)
                THEN [tag |-> "LastName"]
             ELSE IF contains(name, <<"p", "h", "o", "n", "e">>) /\ contains(name, <<"n", "u", "m", "b", "e", "r">>)
                THEN [tag |-> "PhoneNumber"]
             ELSE IF contains(name, <<"c", "i", "t", "y">>)
                THEN [tag |-> "CityName"]
             ELSE IF contains(name, <<"e", "m", "a", "i", "l">>)
                THEN [tag |-> "Email"]
             ELSE IF contains(name, <<"a", "d", "d", "r", "e", "s", "s">>)
                THEN [tag |-> "Address"]
             ELSE IF contains(name, <<"h", "o", "m", "e", "p", "a", "g", "e">>) \/ contains(name, <<"w", "e", "b", "s", "i", "t", "e">>)
                     \/ contains(name, <<"u", "r", "l">>)
                THEN [tag |-> "URL"]
             ELSE [tag |-> "LoremIpsum"]

\* lines 284-311
generate_string_guess(column) ==
    IF IsSome(column.check_constraint)
    THEN IF Unwrap(column.check_constraint).tag = "OneOf"
         THEN [tag |-> "RandomEnum", options |-> Unwrap(column.check_constraint).options]
         ELSE [tag |-> "LoremIpsum"]
    ELSE LET name == to_lowercase(column.name)
         IN  IF contains(name, <<"f", "i", "r", "s", "t">>) /\ contains(name, <<"n", "a", "m", "e">>)
                THEN [tag |-> "FirstName"]
             ELSE IF (contains(name, <<"l", "a", "s", "t">>) /\ contains(name, <<"n", "a", "m", "e">>))
                     \/ contains(name, <<"s", "u", "r", "n", "a", "m", "e">>)
                THEN [tag |-> "LastName"]
             ELSE IF contains(name, <<"p", "h", "o", "n", "e">>) /\ contains(name, <<"n", "u", "m", "b", "e", "r">>)
                THEN [tag |-> "PhoneNumber"]
             ELSE IF contains(name, <<"c", "i", "t", "y">>)
                THEN [tag |-> "CityName"]
             ELSE IF contains(name, <<"a", "d", "d", "r", "e", "s", "s">>)
                THEN [tag |-> "Address"]
             ELSE IF contains(name, <<"e", "m", "a", "i", "l">>)
                THEN [tag |-> "Email"]
             ELSE IF contains(name, <<"h", "o", "m", "e", "p", "a", "g", "e">>) \/ contains(name, <<"w", "e", "b", "s", "i", "t", "e">>)
                     \/ contains(name, <<"u", "r", "l">>)
                THEN [tag |-> "URL"]
             ELSE [tag |-> "LoremIpsum"]

\* generate_int_guess with the two branches exchanged
generate_int_guess_exchanged(column) ==
    IF column.primary_key THEN IntRange(0, 100) ELSE IntAutoIncrement

\* lines 315-321
generate_int_guess(column) ==
    IF column.primary_key THEN IntAutoIncrement ELSE IntRange(0, 100)

\* generate_time_guess that looks for 'create' only
generate_time_guess_create_only(column) ==
    LET name == to_lowercase(column.name)
    IN  IF contains(name, <<"c", "r", "e", "a", "t", "e">>) THEN "Past" ELSE "Now"

\* lines 326-331, 334-339, 342-347
generate_time_guess(column) ==
    LET name == to_lowercase(column.name)
    IN  IF contains(name, <<"c", "r", "e", "a", "t", "e">>) \/ contains(name, <<"u", "p", "d", "a", "t", "e">>)
        THEN "Past" ELSE "Now"

\* lines 313-359
generate_guess(column) ==
    CASE column.sql_type.tag = "Int" -> generate_int_guess(column)
      [] column.sql_type.tag \in {"Float", "Decimal"} -> FloatGuess(0, 100)
      [] column.sql_type.tag = "Date" -> DateGuess(generate_time_guess(column))
      [] column.sql_type.tag = "Time" -> TimeGuess(generate_time_guess(column))
      [] column.sql_type.tag = "Datetime" -> DatetimeGuess(generate_time_guess(column))
      [] column.sql_type.tag = "Bool" -> BoolGuess("Random")
      [] column.sql_type.tag \in {"Varchar", "Char"} ->
            [tag |-> "String", max_size |-> column.sql_type.size,
             sub |-> generate_string_guess(column)]

\* the columns given to generate_guess
GuessNames ==
    {<<"i", "d">>,
     <<"F", "i", "r", "s", "t", "N", "a", "m", "e">>,
     <<"l", "a", "s", "t", "_", "n", "a", "m", "e">>,
     <<"S", "u", "r", "n", "a", "m", "e">>,
     <<"p", "h", "o", "n", "e", "_", "n", "u", "m", "b", "e", "r">>,
     <<"C", "i", "t", "y">>,
     <<"a", "d", "d", "r", "e", "s", "s">>,
     <<"e", "m", "a", "i", "l">>,
     <<"h", "o", "m", "e", "p", "a", "g", "e">>,
     <<"w", "e", "b", "s", "i", "t", "e">>,
     <<"u", "r", "l">>,
     <<"c", "r", "e", "a", "t", "e", "d">>,
     <<"U", "p", "d", "a", "t", "e", "d", "_", "a", "t">>,
     <<"t", "i", "t", "l", "e">>,
     <<"f", "i", "r", "s", "t", "_", "l", "a", "s", "t", "_", "n", "a", "m", "e">>,
     <<"e", "m", "a", "i", "l", "_", "a", "d", "d", "r", "e", "s", "s">>,
     <<"n", "a", "m", "e">>}

GuessTypes ==
    {SQLTypeInt, SQLTypeDecimal, SQLTypeDate, SQLTypeTime, SQLTypeDatetime, SQLTypeFloat,
     SQLTypeBool, SQLTypeChar(1), SQLTypeChar(31), SQLTypeVarchar(255)}

GuessColumns ==
    {SQLColumn(name, sql_type, primary_key, nullable, foreign_key, check_constraint) :
        name \in GuessNames, sql_type \in GuessTypes,
        primary_key \in BOOLEAN, nullable \in BOOLEAN,
        foreign_key \in {None, Some(<<TableName(1), ColumnName(1)>>)},
        check_constraint \in {None, Some(OneOf(<<<<"x">>, <<"y">>>>)),
                              Some(Freeform(<<"i", "n", " ", "(", "1", ")">>))}}

GuessInit ==
    /\ gg_column \in {Some(c) : c \in GuessColumns}
    /\ gg_guess = None

\* one call of generate_guess
GenerateGuess ==
    /\ gg_column # None
    /\ gg_guess = None
    /\ gg_guess' = Some(generate_guess(Unwrap(gg_column)))
    /\ UNCHANGED gg_column
    /\ UNCHANGED <<genVars, valueVars, checkVars, projectVars, appVars, parserVars>>

InitGuess == GenIdle /\ ValueIdle /\ GuessInit /\ CheckIdle /\ ProjectIdle /\ AppIdle /\ ParserIdle

NextGuess == GenerateGuess

SpecGuess == InitGuess /\ [][NextGuess]_vars

\* C7: for a column with primary_key = true and sql_type Int, generate_guess returns
\* Int(AutoIncrement), and no Int(Range(..)), whatever its other fields are.
C7_IntPrimaryKeyIsAutoIncrement ==
    (gg_guess # None /\ Unwrap(gg_column).primary_key /\ Unwrap(gg_column).sql_type = SQLTypeInt) =>
        /\ Unwrap(gg_guess) = IntAutoIncrement
        /\ Unwrap(gg_guess).sub.tag # "Range"

C7_Witness ==
    /\ gg_guess = Some(IntAutoIncrement)
    /\ Unwrap(gg_column).primary_key
    /\ Unwrap(gg_column).sql_type = SQLTypeInt
    /\ Unwrap(gg_column).nullable
    /\ Unwrap(gg_column).foreign_key # None
    /\ Unwrap(gg_column).check_constraint # None
    /\ Unwrap(gg_column).name = <<"U", "p", "d", "a", "t", "e", "d", "_", "a", "t">>


\* the rules of the name, in order: a rule matches when the name holds every keyword
\* of one of its alternatives
NameRules ==
    <<[guess |-> "FirstName", alternatives |-> {{<<"f", "i", "r", "s", "t">>, <<"n", "a", "m", "e">>}}],
      [guess |-> "LastName", alternatives |-> {{<<"l", "a", "s", "t">>, <<"n", "a", "m", "e">>}, {<<"s", "u", "r", "n", "a", "m", "e">>}}],
      [guess |-> "PhoneNumber", alternatives |-> {{<<"p", "h", "o", "n", "e">>, <<"n", "u", "m", "b", "e", "r">>}}],
      [guess |-> "CityName", alternatives |-> {{<<"c", "i", "t", "y">>}}],
      [guess |-> "Address", alternatives |-> {{<<"a", "d", "d", "r", "e", "s", "s">>}}],
      [guess |-> "Email", alternatives |-> {{<<"e", "m", "a", "i", "l">>}}],
      [guess |-> "URL", alternatives |-> {{<<"h", "o", "m", "e", "p", "a", "g", "e">>}, {<<"w", "e", "b", "s", "i", "t", "e">>}, {<<"u", "r", "l">>}}]>>

RuleMatches(i, name) ==
    \E keywords \in NameRules[i].alternatives :
        \A keyword \in keywords : contains(to_lowercase(name), keyword)

\* the sub-strategy of the first rule the name matches, LoremIpsum when it matches none
FirstMatchingRule(name) ==
    IF \E i \in 1..Len(NameRules) : RuleMatches(i, name)
    THEN [tag |-> NameRules[CHOOSE i \in 1..Len(NameRules) :
                                /\ RuleMatches(i, name)
                                /\ \A j \in 1..(i - 1) : ~RuleMatches(j, name)].guess]
    ELSE [tag |-> "LoremIpsum"]

GuessedString ==
    /\ gg_guess # None
    /\ Unwrap(gg_column).sql_type.tag \in {"Char", "Varchar"}

\* C15 as stated: OneOf gives RandomEnum of its options, and a column without check
\* constraint or with a Freeform one gets the sub-strategy of the first rule its name
\* matches.
C15_FreeformFollowsName ==
    GuessedString =>
        LET column == Unwrap(gg_column)
            check == column.check_constraint
        IN  Unwrap(gg_guess) =
                [tag |-> "String", max_size |-> column.sql_type.size,
                 sub |-> IF check # None /\ Unwrap(check).tag = "OneOf"
                         THEN [tag |-> "RandomEnum", options |-> Unwrap(check).options]
                         ELSE FirstMatchingRule(column.name)]

\* C15: OneOf gives RandomEnum of its options, a Freeform check constraint gives
\* LoremIpsum whatever the name is, and a column without check constraint gets the
\* sub-strategy of the first rule its name, lowercased, matches.
C15_StringGuessByConstraintThenName ==
    GuessedString =>
        LET column == Unwrap(gg_column)
            check == column.check_constraint
        IN  Unwrap(gg_guess) =
                [tag |-> "String", max_size |-> column.sql_type.size,
                 sub |-> IF check = None THEN FirstMatchingRule(column.name)
                         ELSE IF Unwrap(check).tag = "OneOf"
                              THEN [tag |-> "RandomEnum", options |-> Unwrap(check).options]
                              ELSE [tag |-> "LoremIpsum"]]

\* a name that holds 'email' and 'address' got Address, the earlier rule
C15_Witness ==
    /\ GuessedString
    /\ Unwrap(gg_column).name = <<"e", "m", "a", "i", "l", "_", "a", "d", "d", "r", "e", "s", "s">>
    /\ Unwrap(gg_column).check_constraint = None
    /\ Unwrap(gg_guess).sub = [tag |-> "Address"]


GuessedOther ==
    /\ gg_guess # None
    /\ Unwrap(gg_column).sql_type.tag \notin {"Char", "Varchar"}

\* the name holds 'create' or 'update', in any case of the letters
NamesChange(name) ==
    \E keyword \in {<<"c", "r", "e", "a", "t", "e">>, <<"u", "p", "d", "a", "t", "e">>} : contains(to_lowercase(name), keyword)

\* the columns that agree with column on sql_type, primary_key, name and check_constraint
SameButNullableAndForeignKey(column) ==
    {other \in GuessColumns :
        /\ other.sql_type = column.sql_type
        /\ other.primary_key = column.primary_key
        /\ other.name = column.name
        /\ other.check_constraint = column.check_constraint}

\* C16: for a type other than Char/Varchar the guess is Int(Range(0,100)) for Int
\* without primary key, Float(0,100) for Float and Decimal, the strategy of the same
\* type with Past when the name holds 'create' or 'update' and Now otherwise for Date,
\* Time and Datetime, Bool(Random) for Bool; and columns that differ only in nullable
\* or foreign_key get the same guess.
C16_GuessByTypeAndName ==
    /\ GuessedOther =>
        LET column == Unwrap(gg_column)
            type == column.sql_type.tag
            guess == Unwrap(gg_guess)
            when == IF NamesChange(column.name) THEN "Past" ELSE "Now"
        IN  /\ (type = "Int" /\ ~column.primary_key) =>
                guess = [tag |-> "Int", sub |-> [tag |-> "Range", min |-> 0, max |-> 100]]
            /\ type \in {"Float", "Decimal"} =>
                guess = [tag |-> "Float", min |-> 0, max |-> 100]
            /\ type \in {"Date", "Time", "Datetime"} =>
                guess = [tag |-> type, sub |-> [tag |-> when]]
            /\ type = "Bool" => guess = [tag |-> "Bool", sub |-> [tag |-> "Random"]]
    /\ gg_guess # None =>
        \A other \in SameButNullableAndForeignKey(Unwrap(gg_column)) :
            generate_guess(other) = Unwrap(gg_guess)

\* a nullable Datetime foreign-key column named 'Updated_at' got Datetime(Past)
C16_Witness ==
    /\ GuessedOther
    /\ Unwrap(gg_column).sql_type = SQLTypeDatetime
    /\ Unwrap(gg_column).name = <<"U", "p", "d", "a", "t", "e", "d", "_", "a", "t">>
    /\ Unwrap(gg_column).nullable
    /\ Unwrap(gg_column).foreign_key # None
    /\ Unwrap(gg_guess) = DatetimeGuess("Past")

-----------------------------------------------------------------------------
(* parse_check_constraint (src/magicdraw_parser/mod.rs:174-187)            *)

LineFeed == "\n"

\* regex_captures!(r#"^in \((.+)\)$"#, str): the captured text, None if no match
\* ('.' matches every character but the line feed)
regex_in_list(str) ==
    IF /\ Len(str) >= 6
       /\ SubSeq(str, 1, 4) = <<"i", "n", " ", "(">>
       /\ str[Len(str)] = ")"
       /\ \A i \in 5..(Len(str) - 1) : str[i] # LineFeed
    THEN Some(SubSeq(str, 5, Len(str) - 1))
    ELSE None

\* the regex of a part with '.*' in place of '.+'
regex_quoted_star(part) ==
    IF /\ Len(part) >= 2
       /\ part[1] = Quote
       /\ part[Len(part)] = Quote
       /\ \A i \in 2..(Len(part) - 1) : part[i] # LineFeed
    THEN Some(SubSeq(part, 2, Len(part) - 1))
    ELSE None

\* regex_captures!(r#"^'(.+)'$"#, part)
regex_quoted(part) ==
    IF /\ Len(part) >= 3
       /\ part[1] = Quote
       /\ part[Len(part)] = Quote
       /\ \A i \in 2..(Len(part) - 1) : part[i] # LineFeed
    THEN Some(SubSeq(part, 2, Len(part) - 1))
    ELSE None

RECURSIVE split(_, _)
\* str::split(pat): the pieces between the occurrences of pat, found left to right
split(str, pat) ==
    LET at == {i \in 1..(Len(str) - Len(pat) + 1) : SubSeq(str, i, i + Len(pat) - 1) = pat}
    IN  IF at = {} THEN <<str>>
        ELSE LET i == CHOOSE k \in at : \A l \in at : k <= l
             IN  <<SubSeq(str, 1, i - 1)>> \o split(SubSeq(str, i + Len(pat), Len(str)), pat)

\* lines 175-184
try_parse_one_of(str) ==
    LET inner == regex_in_list(str)
    IN  IF inner = None THEN None
        ELSE LET parts == split(Unwrap(inner), <<",", " ">>)
                 captures == [i \in 1..Len(parts) |-> regex_quoted(parts[i])]
             IN  IF \E i \in 1..Len(parts) : captures[i] = None
                 THEN None
                 ELSE Some(OneOf([i \in 1..Len(parts) |-> Unwrap(captures[i])]))

\* line 186
parse_check_constraint(str) ==
    LET one_of == try_parse_one_of(str)
    IN  IF one_of # None THEN Unwrap(one_of) ELSE Freeform(str)

\* the bodies given to parse_check_constraint: a head, at most MaxParts parts, each a
\* core between optional quotes, their separators, and a tail
MaxParts == 2

BodyHeads == {<<"i", "n", " ", "(">>, <<"i", "n", "(">>, <<"x", " ", "i", "n", " ", "(">>, <<"s", "o", "m", "e", " ", "o", "t", "h", "e", "r", " ", "S", "Q", "L">>}
BodyTails == {<<")">>, <<>>}
BodyCores == {<<>>, <<"x">>, <<"y">>, <<"x", ",", " ", "y">>, <<"x", ",", "y">>, <<Quote>>, <<LineFeed>>}
BodySeparators == {<<",", " ">>, <<",">>}
BodyParts == [lq : {<<>>, <<Quote>>}, core : BodyCores, rq : {<<>>, <<Quote>>}]

BodyInputs ==
    {[head |-> h, parts |-> ps, seps |-> ss, tail |-> t] :
        h \in BodyHeads, t \in BodyTails,
        <<ps, ss>> \in UNION {[1..n -> BodyParts] \X [1..(IF n = 0 THEN 0 ELSE n - 1) -> BodySeparators] :
                                n \in 0..MaxParts}}

RECURSIVE Interleave(_, _)
Interleave(ps, ss) ==
    IF ps = <<>> THEN <<>>
    ELSE IF Len(ps) = 1 THEN ps[1].lq \o ps[1].core \o ps[1].rq
    ELSE ps[1].lq \o ps[1].core \o ps[1].rq \o ss[1] \o Interleave(Tail(ps), Tail(ss))

BodyOf(in) == in.head \o Interleave(in.parts, in.seps) \o in.tail

CheckInit ==
    /\ \E in \in BodyInputs :
        /\ check_parts = Some(in)
        /\ check_body = Some(BodyOf(in))
    /\ check_result = None

\* one call of parse_check_constraint
ParseCheckConstraint ==
    /\ check_body # None
    /\ check_result = None
    /\ check_result' = Some(parse_check_constraint(Unwrap(check_body)))
    /\ UNCHANGED <<check_parts, check_body>>
    /\ UNCHANGED <<genVars, valueVars, guessVars, projectVars, appVars, parserVars>>

InitCheck == GenIdle /\ ValueIdle /\ GuessIdle /\ CheckInit /\ ProjectIdle /\ AppIdle /\ ParserIdle

NextCheck == ParseCheckConstraint

SpecCheck == InitCheck /\ [][NextCheck]_vars

Parsed == check_result # None

\* the body was written as in ('i1', ..., 'ik') with k >= 1 and comma-space between items
WrittenAsList ==
    LET in == Unwrap(check_parts)
    IN  /\ in.head = <<"i", "n", " ", "(">>
        /\ in.tail = <<")">>
        /\ Len(in.parts) >= 1
        /\ \A i \in 1..Len(in.parts) : in.parts[i].lq = <<Quote>> /\ in.parts[i].rq = <<Quote>>
        /\ \A i \in 1..Len(in.seps) : in.seps[i] = <<",", " ">>

WrittenItems == [i \in 1..Len(Unwrap(check_parts).parts) |-> Unwrap(check_parts).parts[i].core]

ListBody(items) == <<"i", "n", " ", "(">> \o Join([i \in 1..Len(items) |-> Quoted(items[i])], <<",", " ">>) \o <<")">>

\* an item the parser can return: not empty, without comma-space and without line feed
PlainItem(item) ==
    /\ item # <<>>
    /\ ~contains(item, <<",", " ">>)
    /\ ~contains(item, <<LineFeed>>)

\* C8 as stated: a body written as a list of quoted items, whatever the items are,
\* gives OneOf of the items in order; every other result is Freeform(body).
C8_AnyQuotedItemsGiveOneOf ==
    Parsed =>
        /\ WrittenAsList => Unwrap(check_result) = OneOf(WrittenItems)
        /\ Unwrap(check_result).tag # "OneOf" => Unwrap(check_result) = Freeform(Unwrap(check_body))

\* C8: a body written as a list of k >= 1 quoted items that are not empty and hold
\* neither comma-space nor a line feed gives OneOf of the items in order; OneOf is
\* returned only for a body that is such a list of the returned items; every other
\* body b gives Freeform(b).
C8_PlainQuotedItemsGiveOneOf ==
    Parsed =>
        LET r == Unwrap(check_result)
            body == Unwrap(check_body)
        IN  /\ (WrittenAsList /\ \A i \in 1..Len(WrittenItems) : PlainItem(WrittenItems[i]))
                   => r = OneOf(WrittenItems)
            /\ r.tag = "OneOf" =>
                   /\ Len(r.options) >= 1
                   /\ \A i \in 1..Len(r.options) : PlainItem(r.options[i])
                   /\ body = ListBody(r.options)
            /\ r.tag # "OneOf" => r = Freeform(body)

C8_Witness ==
    /\ Parsed
    /\ Unwrap(check_body) = <<"i", "n", " ", "(", "'", "x", "'", ",", " ", "'", "y", "'", ")">>
    /\ Unwrap(check_result) = OneOf(<<<<"x">>, <<"y">>>>)

-----------------------------------------------------------------------------
(* parse_project and its helpers (src/magicdraw_parser/mod.rs:83-318)      *)

Ok(v) == [ok |-> TRUE, value |-> v]
Err(msg) == [ok |-> FALSE, error |-> msg]

Min(S) == CHOOSE x \in S : \A y \in S : x <= y

\* the parsed documents (uml_model_parser.rs:15-91, ddl_parser.rs:14-29)
UMLProperty(id, name, type_href) ==
    [id |-> id, name |-> name, is_id |-> FALSE, type_href |-> type_href]
UMLConstraint(property_name, body) == [property_name |-> property_name, body |-> body]
UMLClass(id, name, properties, constraints) ==
    [id |-> id, name |-> name, properties |-> properties, constraints |-> constraints]
UMLPackage(classess) == [classess |-> classess]
UMLModel(packages) == [packages |-> packages]
PirmaryKey(property_id) == [tag |-> "PirmaryKey", property_id |-> property_id]
Nullable(property_id, nullable) ==
    [tag |-> "Nullable", property_id |-> property_id, nullable |-> nullable]
ForeignKey(from_property_id, to_property_id) ==
    [tag |-> "ForeignKey", from_property_id |-> from_property_id,
     to_property_id |-> to_property_id]
TypeModifier(property_id, modifier) ==
    [tag |-> "Type", property_id |-> property_id, modifier |-> modifier]
DDLClass(class_id, property_ids) == [class_id |-> class_id, property_ids |-> property_ids]
DDLScript(classess) == [classess |-> classess]
DDLProject(scripts) == [scripts |-> scripts]

\* the classes of all packages of all models, in the order the nested loops visit them
ClassessOf(models) ==
    Concat([m \in 1..Len(models) |->
        Concat([p \in 1..Len(models[m].packages) |-> models[m].packages[p].classess])])

\* lines 83-92
find_class_by_id(models, id) ==
    LET classess == ClassessOf(models)
        at == {i \in 1..Len(classess) : classess[i].id = id}
    IN  IF at = {} THEN None ELSE Some(classess[Min(at)])

\* is_nullabe that takes the last fact of the property
is_nullabe_last(modifiers, property) ==
    LET at == {i \in 1..Len(modifiers) :
                  modifiers[i].tag = "Nullable" /\ modifiers[i].property_id = property}
    IN  IF at = {} THEN FALSE
        ELSE modifiers[CHOOSE i \in at : \A j \in at : j <= i].nullable

\* lines 94-107
is_nullabe(modifiers, property) ==
    LET at == {i \in 1..Len(modifiers) :
                  modifiers[i].tag = "Nullable" /\ modifiers[i].property_id = property}
    IN  IF at = {} THEN FALSE ELSE modifiers[Min(at)].nullable

\* lines 109-118
is_primary_key(modifiers, property) ==
    \E i \in 1..Len(modifiers) :
        modifiers[i].tag = "PirmaryKey" /\ modifiers[i].property_id = property

\* lines 120-133
get_type_modifier(modifiers, property) ==
    LET at == {i \in 1..Len(modifiers) :
                  modifiers[i].tag = "Type" /\ modifiers[i].property_id = property}
    IN  IF at = {} THEN None ELSE Some(modifiers[Min(at)].modifier)

\* lines 135-148
get_foreign_key_constraint(modifiers, from_id) ==
    LET at == {i \in 1..Len(modifiers) :
                  modifiers[i].tag = "ForeignKey" /\ modifiers[i].from_property_id = from_id}
    IN  IF at = {} THEN None ELSE Some(modifiers[Min(at)].to_property_id)

\* lines 150-172
get_foreign_key(modifiers, classess, property) ==
    LET to_id == get_foreign_key_constraint(modifiers, property)
    IN  IF to_id = None THEN Ok(None)
        ELSE LET at == UNION {{<<c, p>> : p \in {q \in 1..Len(classess[c].properties) :
                                        classess[c].properties[q].id = Unwrap(to_id)}} :
                                 c \in 1..Len(classess)}
             IN  IF at = {} THEN Ok(None)
                 ELSE LET first == CHOOSE x \in at : \A y \in at :
                                       x[1] < y[1] \/ (x[1] = y[1] /\ x[2] <= y[2])
                          class == classess[first[1]]
                          property_found == class.properties[first[2]]
                      IN  IF property_found.name = None THEN Err("Missing property name")
                          ELSE IF class.name = None THEN Err("Missing class name")
                          ELSE Ok(Some(<<Unwrap(class.name), Unwrap(property_found.name)>>))

\* the constraints of all classes, in the order the nested loops of lines 194-197 visit them
ConstraintsOf(models) ==
    LET classess == ClassessOf(models)
    IN  Concat([c \in 1..Len(classess) |-> classess[c].constraints])

\* get_sql_check_constraint that stops at the first constraint of the name, with or
\* without body
get_sql_check_constraint_first_named(models, property_name) ==
    LET constraints == ConstraintsOf(models)
        at == {i \in 1..Len(constraints) :
                  /\ constraints[i].property_name # None
                  /\ Unwrap(constraints[i].property_name) = property_name}
    IN  IF at = {} \/ constraints[Min(at)].body = None THEN None
        ELSE Some(parse_check_constraint(Unwrap(constraints[Min(at)].body)))

\* lines 190-209
get_sql_check_constraint(models, property_name) ==
    LET constraints == ConstraintsOf(models)
        at == {i \in 1..Len(constraints) :
                  /\ constraints[i].property_name # None
                  /\ constraints[i].body # None
                  /\ Unwrap(constraints[i].property_name) = property_name}
    IN  IF at = {} THEN None
        ELSE Some(parse_check_constraint(Unwrap(constraints[Min(at)].body)))

\* a character the regex class \d accepts and str::parse does not
ArabicIndicThree == "U+0663"

IsAsciiDigit(ch) == \E d \in 1..Len(Digits) : Digits[d] = ch

DigitValue(ch) == (CHOOSE d \in 1..Len(Digits) : Digits[d] = ch) - 1

RECURSIVE DecimalValue(_)
DecimalValue(str) ==
    IF str = <<>> THEN 0
    ELSE 10 * DecimalValue(SubSeq(str, 1, Len(str) - 1)) + DigitValue(str[Len(str)])

\* str::parse::<u8>() and str::parse::<u16>() of a text of \d characters
parse_unsigned(str, max) ==
    IF \E i \in 1..Len(str) : ~IsAsciiDigit(str[i]) THEN Err("invalid digit found in string")
    ELSE IF DecimalValue(str) > max THEN Err("number too large to fit in target type")
    ELSE Ok(DecimalValue(str))

\* regex_captures!(r#"^\((\d+)\)$"#, type_modifier)
regex_size(type_modifier) ==
    IF /\ Len(type_modifier) >= 3
       /\ type_modifier[1] = "("
       /\ type_modifier[Len(type_modifier)] = ")"
       /\ \A i \in 2..(Len(type_modifier) - 1) :
              IsAsciiDigit(type_modifier[i]) \/ type_modifier[i] = ArabicIndicThree
    THEN Some(SubSeq(type_modifier, 2, Len(type_modifier) - 1))
    ELSE None

U8Max == 255
U16Max == 65535
DefaultCharSize == 31
DefaultVarcharSize == 255

\* sized_sql_type that takes the default size for a text the regex does not match
sized_sql_type_lenient(modifiers, tag, max, default, property) ==
    LET type_modifier == get_type_modifier(modifiers, property)
    IN  IF type_modifier # None /\ regex_size(Unwrap(type_modifier)) # None
        THEN LET parsed == parse_unsigned(Unwrap(regex_size(Unwrap(type_modifier))), max)
             IN  IF parsed.ok THEN Ok([tag |-> tag, size |-> parsed.value])
                 ELSE parsed
        ELSE Ok([tag |-> tag, size |-> default])

\* lines 224-234 and 235-245
sized_sql_type(modifiers, tag, max, default, property) ==
    LET type_modifier == get_type_modifier(modifiers, property)
    IN  IF type_modifier # None
        THEN LET size == regex_size(Unwrap(type_modifier))
             IN  IF size = None THEN Err("Type modifier doesn't match format")
                 ELSE LET parsed == parse_unsigned(Unwrap(size), max)
                      IN  IF parsed.ok THEN Ok([tag |-> tag, size |-> parsed.value])
                          ELSE parsed
        ELSE Ok([tag |-> tag, size |-> default])

\* lines 211-247
get_sql_type(modifiers, type_name, property) ==
    CASE type_name = "Int" -> Ok(SQLTypeInt)
      [] type_name = "Date" -> Ok(SQLTypeDate)
      [] type_name = "Datetime" -> Ok(SQLTypeDatetime)
      [] type_name = "Time" -> Ok(SQLTypeTime)
      [] type_name = "Float" -> Ok(SQLTypeFloat)
      [] type_name = "Bool" -> Ok(SQLTypeBool)
      [] type_name = "Decimal" -> Ok(SQLTypeDecimal)
      [] type_name = "Char" -> sized_sql_type(modifiers, "Char", U8Max, DefaultCharSize, property)
      [] type_name = "Varchar" ->
            sized_sql_type(modifiers, "Varchar", U16Max, DefaultVarcharSize, property)

\* HashMap::get
map_get(map, key) == IF key \in DOMAIN map THEN Some(map[key]) ELSE None

\* line 285 with the properties taken in the order the UML class declares them
column_ids_declared(ddl_class, model_class) ==
    LET Listed(property) == \E i \in 1..Len(ddl_class.property_ids) :
                                ddl_class.property_ids[i] = property.id
        listed == SelectSeq(model_class.properties, Listed)
    IN  [i \in 1..Len(listed) |-> listed[i].id]

\* line 285: the ids the column loop goes through
column_ids(ddl_class, model_class) == ddl_class.property_ids

RECURSIVE script_columns_all_classes(_, _, _, _)
\* script_columns with the foreign-key target looked for in every class of the models
script_columns_all_classes(in, model_classess, model_class, todo_ids) ==
    IF todo_ids = <<>> THEN Ok(<<>>)
    ELSE LET property_id == Head(todo_ids)
             at == {i \in 1..Len(model_class.properties) :
                       model_class.properties[i].id = property_id}
         IN  IF at = {} THEN Err("Property not found")
             ELSE LET property == model_class.properties[Min(at)]
                      rest == script_columns_all_classes(in, model_classess, model_class, Tail(todo_ids))
                  IN  IF property.name = None \/ property.type_href = None THEN rest
                      ELSE LET prop_name == Unwrap(property.name)
                               type_name == map_get(in.sql_type_names, Unwrap(property.type_href))
                               check_constraint == get_sql_check_constraint(in.models, prop_name)
                               foreign_key == get_foreign_key(in.modifiers, ClassessOf(in.models), property_id)
                               sql_type == get_sql_type(in.modifiers, Unwrap(type_name), property_id)
                           IN  IF type_name = None
                                  THEN Err("Property type name conversion not found")
                               ELSE IF ~foreign_key.ok THEN foreign_key
                               ELSE IF ~sql_type.ok THEN sql_type
                               ELSE IF ~rest.ok THEN rest
                               ELSE Ok(<<SQLColumn(prop_name, sql_type.value,
                                                  is_primary_key(in.modifiers, property_id),
                                                  is_nullabe(in.modifiers, property_id),
                                                  foreign_key.value, check_constraint)>>
                                       \o rest.value)

RECURSIVE script_columns_strict(_, _, _, _)
\* script_columns that fails at a property without name or without type
script_columns_strict(in, model_classess, model_class, todo_ids) ==
    IF todo_ids = <<>> THEN Ok(<<>>)
    ELSE LET property_id == Head(todo_ids)
             at == {i \in 1..Len(model_class.properties) :
                       model_class.properties[i].id = property_id}
         IN  IF at = {} THEN Err("Property not found")
             ELSE LET property == model_class.properties[Min(at)]
                      rest == script_columns_strict(in, model_classess, model_class, Tail(todo_ids))
                  IN  IF property.name = None \/ property.type_href = None
                         THEN Err("Property not found")
                      ELSE LET prop_name == Unwrap(property.name)
                               type_name == map_get(in.sql_type_names, Unwrap(property.type_href))
                               check_constraint == get_sql_check_constraint(in.models, prop_name)
                               foreign_key == get_foreign_key(in.modifiers, model_classess, property_id)
                               sql_type == get_sql_type(in.modifiers, Unwrap(type_name), property_id)
                           IN  IF type_name = None
                                  THEN Err("Property type name conversion not found")
                               ELSE IF ~foreign_key.ok THEN foreign_key
                               ELSE IF ~sql_type.ok THEN sql_type
                               ELSE IF ~rest.ok THEN rest
                               ELSE Ok(<<SQLColumn(prop_name, sql_type.value,
                                                  is_primary_key(in.modifiers, property_id),
                                                  is_nullabe(in.modifiers, property_id),
                                                  foreign_key.value, check_constraint)>>
                                       \o rest.value)

RECURSIVE script_columns(_, _, _, _)
\* lines 284-309: the columns of one table, or the first error
script_columns(in, model_classess, model_class, todo_ids) ==
    IF todo_ids = <<>> THEN Ok(<<>>)
    ELSE LET property_id == Head(todo_ids)
             at == {i \in 1..Len(model_class.properties) :
                       model_class.properties[i].id = property_id}
         IN  IF at = {} THEN Err("Property not found")
             ELSE LET property == model_class.properties[Min(at)]
                      rest == script_columns(in, model_classess, model_class, Tail(todo_ids))
                  IN  IF property.name = None \/ property.type_href = None THEN rest
                      ELSE LET prop_name == Unwrap(property.name)
                               type_name == map_get(in.sql_type_names, Unwrap(property.type_href))
                               check_constraint == get_sql_check_constraint(in.models, prop_name)
                               foreign_key == get_foreign_key(in.modifiers, model_classess, property_id)
                               sql_type == get_sql_type(in.modifiers, Unwrap(type_name), property_id)
                           IN  IF type_name = None
                                  THEN Err("Property type name conversion not found")
                               ELSE IF ~foreign_key.ok THEN foreign_key
                               ELSE IF ~sql_type.ok THEN sql_type
                               ELSE IF ~rest.ok THEN rest
                               ELSE Ok(<<SQLColumn(prop_name, sql_type.value,
                                                  is_primary_key(in.modifiers, property_id),
                                                  is_nullabe(in.modifiers, property_id),
                                                  foreign_key.value, check_constraint)>>
                                       \o rest.value)

RECURSIVE script_tables(_, _, _, _)
\* lines 278-312: the tables of the classes from index i on, or the first error
script_tables(in, ddl_script, model_classess, i) ==
    IF i > Len(ddl_script.classess) THEN Ok(<<>>)
    ELSE LET ddl_class == ddl_script.classess[i]
             model_class == model_classess[i]
         IN  IF model_class.name = None THEN Err("UML class name not found")
             ELSE LET columns == script_columns(in, model_classess, model_class,
                                                column_ids(ddl_class, model_class))
                      rest == script_tables(in, ddl_script, model_classess, i + 1)
                  IN  IF ~columns.ok THEN columns
                      ELSE IF ~rest.ok THEN rest
                      ELSE Ok(<<SQLTable(Unwrap(model_class.name), columns.value)>> \o rest.value)

\* lines 269-313: the collection of one DDL script, or the first error
script_collection(in, ddl_script) ==
    LET found == [i \in 1..Len(ddl_script.classess) |->
                     find_class_by_id(in.models, ddl_script.classess[i].class_id)]
    IN  IF \E i \in 1..Len(found) : found[i] = None THEN Err("UML class not found")
        ELSE LET model_classess == [i \in 1..Len(found) |-> Unwrap(found[i])]
                 built == script_tables(in, ddl_script, model_classess, 1)
             IN  IF built.ok THEN Ok([tables |-> built.value]) ELSE built

\* the scripts of all DDL projects, in the order the loops of lines 267-268 visit them
ScriptsOf(ddl_scripts) == Concat([p \in 1..Len(ddl_scripts) |-> ddl_scripts[p].scripts])

\* the documents given to parse_project
MaxScripts == 2

TypeNamesSample ==
    [href \in {"types#int", "types#char"} |-> IF href = "types#int" THEN "Int" ELSE "Char"]

PropertyKinds == {"int", "char", "noname", "notype", "badtype"}

PropertyOfKind(id, name, kind) ==
    CASE kind = "int" -> UMLProperty(id, Some(name), Some("types#int"))
      [] kind = "char" -> UMLProperty(id, Some(name), Some("types#char"))
      [] kind = "noname" -> UMLProperty(id, None, Some("types#int"))
      [] kind = "notype" -> UMLProperty(id, Some(name), None)
      [] kind = "badtype" -> UMLProperty(id, Some(name), Some("types#other"))

ModelsSamples ==
    {<<UMLModel(<<
        UMLPackage(<<UMLClass("c1", name,
                              IF swapped THEN <<PropertyOfKind("p2", ColumnName(2), k2),
                                                PropertyOfKind("p1", ColumnName(1), k1)>>
                                         ELSE <<PropertyOfKind("p1", ColumnName(1), k1),
                                                PropertyOfKind("p2", ColumnName(2), k2)>>,
                              <<UMLConstraint(Some(ColumnName(1)), Some(<<"i", "n", " ", "(", "'", "x", "'", ",", " ", "'", "y", "'", ")">>))>>)>>),
        UMLPackage(<<UMLClass("c2", Some(TableName(2)),
                              <<PropertyOfKind("p3", ColumnName(3), "int")>>, <<>>)>>)>>)>> :
        name \in {None, Some(TableName(1))}, swapped \in BOOLEAN,
        k1 \in PropertyKinds \ {"notype"}, k2 \in PropertyKinds \ {"char"}}

ModifiersSamples ==
    {<<>>,
     <<PirmaryKey("p1"), Nullable("p2", TRUE), TypeModifier("p2", <<"(", "1", "0", ")">>),
       ForeignKey("p3", "p1"), TypeModifier("p1", <<"(", "x", ")">>)>>,
     <<TypeModifier("p1", <<"(", "3", "0", "0", ")">>), Nullable("p1", FALSE), ForeignKey("p2", "p3")>>}

DDLClassSamples ==
    {DDLClass("c1", <<"p1", "p2">>), DDLClass("c1", <<"p2", "p1">>),
     DDLClass("c1", <<"p2", "p3">>), DDLClass("c2", <<"p3">>), DDLClass("c3", <<"p1">>)}

ScriptSamples ==
    {DDLScript(<<a>>) : a \in DDLClassSamples}
        \cup {DDLScript(<<a, b>>) : a, b \in DDLClassSamples}

\* the scripts in one DDL project, or each in a project of its own
DDLSamples ==
    UNION {{<<DDLProject(ss)>>, [i \in 1..Len(ss) |-> DDLProject(<<ss[i]>>)]} :
            ss \in SeqsUpTo(ScriptSamples, MaxScripts) \ {<<>>}}

ProjectInputs ==
    [models : ModelsSamples, modifiers : ModifiersSamples,
     ddl_scripts : DDLSamples, sql_type_names : {TypeNamesSample}]

\* lines 259-266
ProjectInit ==
    /\ project_input \in {Some(in) : in \in ProjectInputs}
    /\ project_result = None
    /\ collections = <<>>
    /\ scripts_done = 0
    /\ project_pc = "loop"

\* one iteration of the script loop that, at an error, returns what is assembled so far
AssembleScriptPartial ==
    /\ project_pc = "loop"
    /\ scripts_done < Len(ScriptsOf(Unwrap(project_input).ddl_scripts))
    /\ LET in == Unwrap(project_input)
           collection == script_collection(in, ScriptsOf(in.ddl_scripts)[scripts_done + 1])
       IN  IF collection.ok
           THEN /\ collections' = Append(collections, collection.value)
                /\ scripts_done' = scripts_done + 1
                /\ UNCHANGED <<project_result, project_pc>>
           ELSE /\ project_result' = Some(Ok(collections))
                /\ project_pc' = "returned"
                /\ UNCHANGED <<collections, scripts_done>>
    /\ UNCHANGED project_input
    /\ UNCHANGED <<genVars, valueVars, guessVars, checkVars, appVars, parserVars>>

\* lines 268-314: one iteration of the script loop
AssembleScript ==
    /\ project_pc = "loop"
    /\ scripts_done < Len(ScriptsOf(Unwrap(project_input).ddl_scripts))
    /\ LET in == Unwrap(project_input)
           collection == script_collection(in, ScriptsOf(in.ddl_scripts)[scripts_done + 1])
       IN  IF collection.ok
           THEN /\ collections' = Append(collections, collection.value)
                /\ scripts_done' = scripts_done + 1
                /\ UNCHANGED <<project_result, project_pc>>
           ELSE /\ project_result' = Some(collection)
                /\ project_pc' = "returned"
                /\ UNCHANGED <<collections, scripts_done>>
    /\ UNCHANGED project_input
    /\ UNCHANGED <<genVars, valueVars, guessVars, checkVars, appVars, parserVars>>

\* line 317
ReturnCollections ==
    /\ project_pc = "loop"
    /\ scripts_done = Len(ScriptsOf(Unwrap(project_input).ddl_scripts))
    /\ project_result' = Some(Ok(collections))
    /\ project_pc' = "returned"
    /\ UNCHANGED <<project_input, collections, scripts_done>>
    /\ UNCHANGED <<genVars, valueVars, guessVars, checkVars, appVars, parserVars>>

InitProject == GenIdle /\ ValueIdle /\ GuessIdle /\ CheckIdle /\ ProjectInit /\ AppIdle /\ ParserIdle

NextProject == AssembleScript \/ ReturnCollections

SpecProject == InitProject /\ [][NextProject]_vars

ProjectReturned == project_pc = "returned"
ProjectScripts == ScriptsOf(Unwrap(project_input).ddl_scripts)

\* the names of the properties a DDL class lists, in the order it lists them, without
\* the properties that have no name or no type
ListedColumnNames(ddl_class) ==
    LET class == Unwrap(find_class_by_id(Unwrap(project_input).models, ddl_class.class_id))
        Declared == {class.properties[i] : i \in 1..Len(class.properties)}
        PropertyWithId(id) == CHOOSE property \in Declared : property.id = id
        Kept(id) == /\ \E property \in Declared : property.id = id
                    /\ PropertyWithId(id).name # None
                    /\ PropertyWithId(id).type_href # None
        kept == SelectSeq(ddl_class.property_ids, Kept)
    IN  [i \in 1..Len(kept) |-> Unwrap(PropertyWithId(kept[i]).name)]

\* C9: the columns of every returned table are the properties its DDL class lists, in
\* the order of the DDL class's property ids (omitted properties left out), and the
\* tables of every collection are the classes of its DDL script, in the script's order.
C9_ColumnsInDDLOrder ==
    (ProjectReturned /\ Unwrap(project_result).ok) =>
        LET returned == Unwrap(project_result).value
        IN  /\ Len(returned) = Len(ProjectScripts)
            /\ \A s \in 1..Len(returned) :
                /\ Len(returned[s].tables) = Len(ProjectScripts[s].classess)
                /\ \A t \in 1..Len(returned[s].tables) :
                    LET table == returned[s].tables[t]
                        ddl_class == ProjectScripts[s].classess[t]
                    IN  /\ Some(table.name) =
                              Unwrap(find_class_by_id(Unwrap(project_input).models,
                                                      ddl_class.class_id)).name
                        /\ [i \in 1..Len(table.columns) |-> table.columns[i].name]
                              = ListedColumnNames(ddl_class)

\* a returned table whose DDL class lists p2 before p1 while the UML class declares p1
\* before p2, in a script that lists class c2 before class c1
C9_Witness ==
    /\ ProjectReturned
    /\ Unwrap(project_result).ok
    /\ ProjectScripts[1] = DDLScript(<<DDLClass("c2", <<"p3">>), DDLClass("c1", <<"p2", "p1">>)>>)
    /\ ClassessOf(Unwrap(project_input).models)[1].properties[1].id = "p1"
    /\ LET built == Unwrap(project_result).value[1].tables
       IN  /\ built[1].name = TableName(2)
           /\ built[2].name = TableName(1)
           /\ [i \in 1..Len(built[2].columns) |-> built[2].columns[i].name]
                 = <<ColumnName(2), ColumnName(1)>>

\* a DDL class names a class id no UML class has
NamesMissingClass(ddl_class) ==
    \A c \in 1..Len(ClassessOf(Unwrap(project_input).models)) :
        ClassessOf(Unwrap(project_input).models)[c].id # ddl_class.class_id

\* a DDL class lists a property id its class does not contain
NamesMissingProperty(ddl_class) ==
    /\ ~NamesMissingClass(ddl_class)
    /\ LET class == Unwrap(find_class_by_id(Unwrap(project_input).models, ddl_class.class_id))
       IN  \E i \in 1..Len(ddl_class.property_ids) :
               \A p \in 1..Len(class.properties) :
                   class.properties[p].id # ddl_class.property_ids[i]

\* a DDL class lists a named and typed property whose type_href has no resolved type
NamesUnresolvedType(ddl_class) ==
    /\ ~NamesMissingClass(ddl_class)
    /\ LET class == Unwrap(find_class_by_id(Unwrap(project_input).models, ddl_class.class_id))
       IN  \E i \in 1..Len(ddl_class.property_ids) :
               \E p \in 1..Len(class.properties) :
                   /\ class.properties[p].id = ddl_class.property_ids[i]
                   /\ class.properties[p].name # None
                   /\ class.properties[p].type_href # None
                   /\ Unwrap(class.properties[p].type_href)
                          \notin DOMAIN Unwrap(project_input).sql_type_names

DanglingReferenceIn(s) ==
    \E t \in 1..Len(ProjectScripts[s].classess) :
        \/ NamesMissingClass(ProjectScripts[s].classess[t])
        \/ NamesMissingProperty(ProjectScripts[s].classess[t])
        \/ NamesUnresolvedType(ProjectScripts[s].classess[t])

\* C10: when a DDL script names a missing class, a missing property or a named and
\* typed property of unresolved type, parse_project returns an error, which carries
\* no collection.
C10_DanglingReferenceIsError ==
    (ProjectReturned /\ \E s \in 1..Len(ProjectScripts) : DanglingReferenceIn(s)) =>
        /\ ~Unwrap(project_result).ok
        /\ DOMAIN Unwrap(project_result) = {"ok", "error"}

\* the first script was assembled into a collection, the second names a missing
\* class, and the call returned the error
C10_Witness ==
    /\ ProjectReturned
    /\ Len(ProjectScripts) = 2
    /\ ~DanglingReferenceIn(1)
    /\ NamesMissingClass(ProjectScripts[2].classess[1])
    /\ Len(collections) = 1
    /\ Unwrap(project_result) = Err("UML class not found")



\* a property the UML class of the DDL class declares without name or without type
LeftOut(ddl_class, property_id) ==
    LET class == find_class_by_id(Unwrap(project_input).models, ddl_class.class_id)
    IN  /\ class # None
        /\ \E i \in 1..Len(Unwrap(class).properties) :
              /\ Unwrap(class).properties[i].id = property_id
              /\ \A j \in 1..(i - 1) : Unwrap(class).properties[j].id # property_id
              /\ \/ Unwrap(class).properties[i].name = None
                 \/ Unwrap(class).properties[i].type_href = None

\* the DDL class without the ids of these properties
WithoutLeftOut(ddl_class) ==
    LET Stays(property_id) == ~LeftOut(ddl_class, property_id)
    IN  DDLClass(ddl_class.class_id, SelectSeq(ddl_class.property_ids, Stays))

\* what parse_project returns for the scripts: the first error, or all collections
ReturnOf(in, scripts) ==
    LET assembled == [s \in 1..Len(scripts) |-> script_collection(in, scripts[s])]
        failed == {s \in 1..Len(scripts) : ~assembled[s].ok}
    IN  IF failed = {} THEN Ok([s \in 1..Len(scripts) |-> assembled[s].value])
        ELSE assembled[Min(failed)]

\* C22: a listed property that its UML class declares without name or without type
\* gives no column, and the extraction returns what it returns for the same scripts
\* without that property: the other properties give their columns, and an error is
\* never due to it.
C22_NamelessOrUntypedIsLeftOut ==
    ProjectReturned =>
        LET in == Unwrap(project_input)
            pruned == [s \in 1..Len(ProjectScripts) |->
                        DDLScript([t \in 1..Len(ProjectScripts[s].classess) |->
                                    WithoutLeftOut(ProjectScripts[s].classess[t])])]
        IN  /\ Unwrap(project_result) = ReturnOf(in, pruned)
            /\ Unwrap(project_result).ok =>
                \A s \in 1..Len(ProjectScripts) : \A t \in 1..Len(ProjectScripts[s].classess) :
                    Len(Unwrap(project_result).value[s].tables[t].columns)
                        = Len(pruned[s].classess[t].property_ids)

\* class c1 lists p1 and p2, p2 has no type: the table has the one column c1
C22_Witness ==
    /\ ProjectReturned
    /\ Unwrap(project_result).ok
    /\ ProjectScripts = <<DDLScript(<<DDLClass("c1", <<"p1", "p2">>)>>)>>
    /\ LeftOut(ProjectScripts[1].classess[1], "p2")
    /\ ~LeftOut(ProjectScripts[1].classess[1], "p1")
    /\ \E i \in 1..2 :
          /\ ClassessOf(Unwrap(project_input).models)[1].properties[i].id = "p2"
          /\ ClassessOf(Unwrap(project_input).models)[1].properties[i].type_href = None
    /\ LET columns == Unwrap(project_result).value[1].tables[1].columns
       IN  Len(columns) = 1 /\ columns[1].name = ColumnName(1)

-----------------------------------------------------------------------------
(* parse_project over modifier lists of every kind of fact                 *)

MaxFacts == 3

FactTypeNames ==
    [href \in {"types#int", "types#char", "types#varchar"} |->
        CASE href = "types#int" -> "Int"
          [] href = "types#char" -> "Char"
          [] href = "types#varchar" -> "Varchar"]

\* class c1 (t1) with p1 (c1, char) and p2 (c2, varchar), class c2 (t2) with p3 (c3, int)
FactModels ==
    <<UMLModel(<<
        UMLPackage(<<UMLClass("c1", Some(TableName(1)),
                              <<UMLProperty("p1", Some(ColumnName(1)), Some("types#char")),
                                UMLProperty("p2", Some(ColumnName(2)), Some("types#varchar"))>>,
                              <<>>)>>),
        UMLPackage(<<UMLClass("c2", Some(TableName(2)),
                              <<UMLProperty("p3", Some(ColumnName(3)), Some("types#int"))>>,
                              <<>>)>>)>>)>>

FactSamples ==
    {PirmaryKey("p1"),
     Nullable("p1", TRUE), Nullable("p1", FALSE), Nullable("p2", TRUE),
     TypeModifier("p1", <<"(", "7", ")">>),
     TypeModifier("p1", <<"(", "x", ")">>),
     TypeModifier("p1", <<"(", "3", "0", "0", ")">>),
     TypeModifier("p1", <<"(", ArabicIndicThree, ")">>),
     TypeModifier("p2", <<"(", "3", "0", "0", ")">>),
     TypeModifier("p2", <<"(", "7", "0", "0", "0", "0", ")">>),
     TypeModifier("p2", <<"1", "2">>),
     TypeModifier("p3", <<"(", "x", ")">>),
     ForeignKey("p1", "p3"), ForeignKey("p1", "p2")}

\* c1 alone, c1 and c2 in one script, c2 and c1 in two scripts of one project
FactScripts ==
    {<<DDLProject(<<DDLScript(<<DDLClass("c1", <<"p1", "p2">>)>>)>>)>>,
     <<DDLProject(<<DDLScript(<<DDLClass("c1", <<"p1", "p2">>), DDLClass("c2", <<"p3">>)>>)>>)>>,
     <<DDLProject(<<DDLScript(<<DDLClass("c2", <<"p3">>)>>),
                    DDLScript(<<DDLClass("c1", <<"p2", "p1">>)>>)>>)>>}

FactInputs ==
    [models : {FactModels}, modifiers : SeqsUpTo(FactSamples, MaxFacts),
     ddl_scripts : FactScripts, sql_type_names : {FactTypeNames}]

FactsInit ==
    /\ project_input \in {Some(in) : in \in FactInputs}
    /\ project_result = None
    /\ collections = <<>>
    /\ scripts_done = 0
    /\ project_pc = "loop"

InitFacts == GenIdle /\ ValueIdle /\ GuessIdle /\ CheckIdle /\ FactsInit /\ AppIdle /\ ParserIdle

NextFacts == AssembleScript \/ ReturnCollections

SpecFacts == InitFacts /\ [][NextFacts]_vars

\* the facts of one kind recorded for a property, in the order of the modifier list
FactsOf(kind, property_id) ==
    LET About(fact) ==
            /\ fact.tag = kind
            /\ property_id = IF kind = "ForeignKey" THEN fact.from_property_id
                                                    ELSE fact.property_id
    IN  SelectSeq(Unwrap(project_input).modifiers, About)

\* the positions <<s, t, i>> of the properties the DDL scripts list
ListedPositions ==
    UNION {UNION {{<<s, t, i>> : i \in 1..Len(ProjectScripts[s].classess[t].property_ids)} :
                    t \in 1..Len(ProjectScripts[s].classess)} :
            s \in 1..Len(ProjectScripts)}

PropertyIdAt(pos) == ProjectScripts[pos[1]].classess[pos[2]].property_ids[pos[3]]

\* the column assembled for a listed property (every property of FactModels has a
\* name and a type, so none is left out)
ColumnAt(pos) == Unwrap(project_result).value[pos[1]].tables[pos[2]].columns[pos[3]]

DeclaredProperties ==
    UNION {{class.properties[i] : i \in 1..Len(class.properties)} :
            class \in {ClassessOf(Unwrap(project_input).models)[c] :
                        c \in 1..Len(ClassessOf(Unwrap(project_input).models))}}

TypeNameOf(property_id) ==
    LET property == CHOOSE q \in DeclaredProperties : q.id = property_id
    IN  Unwrap(project_input).sql_type_names[Unwrap(property.type_href)]

HasSize(property_id) == TypeNameOf(property_id) \in {"Char", "Varchar"}

\* the text of the type-size modifier of a property, None when it has none
SizeText(property_id) ==
    IF FactsOf("Type", property_id) = <<>> THEN None
    ELSE Some(Head(FactsOf("Type", property_id)).modifier)

Inner(text) == SubSeq(text, 2, Len(text) - 1)

\* "(" digits ")" with the digits 0 to 9
DigitsInParens(text) ==
    /\ Len(text) >= 3
    /\ text[1] = "(" /\ text[Len(text)] = ")"
    /\ \A i \in 1..Len(Inner(text)) : IsAsciiDigit(Inner(text)[i])

\* "(" digits ")" with decimal digits of any script
AnyDigitsInParens(text) ==
    /\ Len(text) >= 3
    /\ text[1] = "(" /\ text[Len(text)] = ")"
    /\ \A i \in 1..Len(Inner(text)) :
          IsAsciiDigit(Inner(text)[i]) \/ Inner(text)[i] = ArabicIndicThree

DefaultSize(property_id) == IF TypeNameOf(property_id) = "Char" THEN 31 ELSE 255

LargestSize(property_id) == IF TypeNameOf(property_id) = "Char" THEN 255 ELSE 65535

SizeError(property_id) ==
    LET text == Unwrap(SizeText(property_id))
    IN  IF ~HasSize(property_id) \/ SizeText(property_id) = None THEN None
        ELSE IF ~AnyDigitsInParens(text) THEN Some("Type modifier doesn't match format")
        ELSE IF ~DigitsInParens(text) THEN Some("invalid digit found in string")
        ELSE IF DecimalValue(Inner(text)) > LargestSize(property_id)
             THEN Some("number too large to fit in target type")
        ELSE None

C18_DefaultAndGivenSize ==
    /\ ProjectReturned
    /\ Unwrap(project_result).ok
    /\ SizeText("p1") = None
    /\ SizeText("p2") = Some(<<"(", "3", "0", "0", ")">>)
    /\ ColumnAt(<<1, 1, 1>>).sql_type = SQLTypeChar(31)
    /\ ColumnAt(<<1, 1, 2>>).sql_type = SQLTypeVarchar(300)


\* the (class name, property name) of the property with the id to_id when its class
\* is among the classes script s lists, None otherwise
ResolvedIn(s, to_id) ==
    LET listed == {ProjectScripts[s].classess[t].class_id :
                    t \in 1..Len(ProjectScripts[s].classess)}
        classess == ClassessOf(Unwrap(project_input).models)
        owners == {class \in {classess[c] : c \in 1..Len(classess)} :
                    /\ class.id \in listed
                    /\ \E i \in 1..Len(class.properties) : class.properties[i].id = to_id}
    IN  IF owners = {} THEN None
        ELSE LET class == CHOOSE owner \in owners : TRUE
                 property == CHOOSE q \in DeclaredProperties : q.id = to_id
             IN  Some(<<Unwrap(class.name), Unwrap(property.name)>>)

\* C19: every column takes the first fact of a kind recorded for its property and
\* ignores the later ones: nullable is the value of the first Nullable fact (false
\* without one), the size is the one of the first type-size fact, the foreign key
\* is the target of the first ForeignKey fact from the property, and primary_key says
\* whether some PirmaryKey fact names the property.
C19_FirstFactWins ==
    (ProjectReturned /\ Unwrap(project_result).ok) =>
        \A pos \in ListedPositions :
            LET id == PropertyIdAt(pos)
                column == ColumnAt(pos)
                nullables == FactsOf("Nullable", id)
                sizes == FactsOf("Type", id)
                targets == FactsOf("ForeignKey", id)
            IN  /\ column.nullable = IF nullables = <<>> THEN FALSE ELSE Head(nullables).nullable
                /\ (HasSize(id) /\ sizes # <<>>) =>
                        column.sql_type.size = DecimalValue(Inner(Head(sizes).modifier))
                /\ column.foreign_key =
                        IF targets = <<>> THEN None
                        ELSE ResolvedIn(pos[1], Head(targets).to_property_id)
                /\ column.primary_key <=> FactsOf("PirmaryKey", id) # <<>>

\* two Nullable facts of p1 with different values: the column has the first value
C19_Witness ==
    /\ ProjectReturned
    /\ Unwrap(project_result).ok
    /\ Unwrap(project_input).modifiers
          = <<Nullable("p2", TRUE), Nullable("p1", FALSE), Nullable("p1", TRUE)>>
    /\ PropertyIdAt(<<1, 1, 1>>) = "p1"
    /\ ~ColumnAt(<<1, 1, 1>>).nullable
    /\ ColumnAt(<<1, 1, 2>>).nullable

\* a well-formed size before a malformed one, and a resolvable target before an
\* unresolvable one: the later facts are never looked at
C19_LaterFactsShadowed ==
    /\ ProjectReturned
    /\ Unwrap(project_result).ok
    /\ Len(ProjectScripts) = 1
    /\ Len(ProjectScripts[1].classess) = 1
    /\ FactsOf("Type", "p1") = <<TypeModifier("p1", <<"(", "7", ")">>),
                                 TypeModifier("p1", <<"(", "x", ")">>)>>
    /\ ColumnAt(<<1, 1, 1>>).sql_type = SQLTypeChar(7)

\* the listed properties whose foreign key names a property of a class the script
\* does not list
TargetsOutside ==
    {pos \in ListedPositions :
        /\ FactsOf("ForeignKey", PropertyIdAt(pos)) # <<>>
        /\ LET to_id == Head(FactsOf("ForeignKey", PropertyIdAt(pos))).to_property_id
           IN  /\ \E q \in DeclaredProperties : q.id = to_id
               /\ ResolvedIn(pos[1], to_id) = None}

\* C20: a column's foreign key is the (class name, property name) of the target of
\* its ForeignKey fact, looked for in the classes its own DDL script lists; a target
\* in a class the script does not list leaves the column without foreign key and
\* does not make the extraction fail.
C20_ForeignKeyWithinScript ==
    ProjectReturned =>
        LET returned == Unwrap(project_result)
        IN  /\ returned.ok =>
                \A pos \in ListedPositions :
                    LET targets == FactsOf("ForeignKey", PropertyIdAt(pos))
                    IN  /\ targets # <<>> =>
                            ColumnAt(pos).foreign_key =
                                ResolvedIn(pos[1], Head(targets).to_property_id)
                        /\ pos \in TargetsOutside => ColumnAt(pos).foreign_key = None
            /\ ~returned.ok =>
                \E pos \in ListedPositions : SizeError(PropertyIdAt(pos)) # None

\* p1 names p3 of class c2, which the script of c1 does not list although another
\* script of the same project does: the column c1 has no foreign key
C20_Witness ==
    /\ ProjectReturned
    /\ Unwrap(project_result).ok
    /\ Len(ProjectScripts) = 2
    /\ FactsOf("ForeignKey", "p1") = <<ForeignKey("p1", "p3")>>
    /\ <<2, 1, 2>> \in TargetsOutside
    /\ ColumnAt(<<2, 1, 2>>).name = ColumnName(1)
    /\ ColumnAt(<<2, 1, 2>>).foreign_key = None

\* the same fact in a script that lists both classes gives the foreign key (t2, c3)
C20_ResolvedInsideScript ==
    /\ ProjectReturned
    /\ Unwrap(project_result).ok
    /\ Len(ProjectScripts) = 1
    /\ FactsOf("ForeignKey", "p1") = <<ForeignKey("p1", "p3")>>
    /\ ColumnAt(<<1, 1, 1>>).foreign_key = Some(<<TableName(2), ColumnName(3)>>)


-----------------------------------------------------------------------------
(* parse_project over constraints spread over the classes of two models    *)

MaxConstraints == 2

BodyXY == <<"i", "n", " ", "(", "'", "x", "'", ",", " ", "'", "y", "'", ")">>
BodyZ == <<"i", "n", " ", "(", "'", "z", "'", ")">>
BodyFree == <<"i", "n", " ", "(", "1", ")">>

ConstraintSamples ==
    {UMLConstraint(Some(ColumnName(1)), Some(BodyXY)),
     UMLConstraint(Some(ColumnName(1)), Some(BodyFree)),
     UMLConstraint(Some(ColumnName(1)), None),
     UMLConstraint(None, Some(BodyZ)),
     UMLConstraint(Some(ColumnName(2)), Some(BodyZ))}

\* class c1 (t1) with p1 (c1) and p2 (c2) and class c2 (t2) with p3 (c1) in two
\* packages of the first model, class c3 (t3) with p4 (c2) in the second model
ConstraintModels ==
    {<<UMLModel(<<
            UMLPackage(<<UMLClass("c1", Some(TableName(1)),
                                  <<UMLProperty("p1", Some(ColumnName(1)), Some("types#int")),
                                    UMLProperty("p2", Some(ColumnName(2)), Some("types#int"))>>,
                                  first)>>),
            UMLPackage(<<UMLClass("c2", Some(TableName(2)),
                                  <<UMLProperty("p3", Some(ColumnName(1)), Some("types#int"))>>,
                                  second)>>)>>),
       UMLModel(<<
            UMLPackage(<<UMLClass("c3", Some(TableName(3)),
                                  <<UMLProperty("p4", Some(ColumnName(2)), Some("types#int"))>>,
                                  third)>>)>>)>> :
        first \in SeqsUpTo(ConstraintSamples, MaxConstraints),
        second \in SeqsUpTo(ConstraintSamples, MaxConstraints),
        third \in SeqsUpTo(ConstraintSamples, 1)}

\* c1 and c2 in one script, c2 alone; c3 is in no script
ConstraintScripts ==
    {<<DDLProject(<<DDLScript(<<DDLClass("c1", <<"p1", "p2">>), DDLClass("c2", <<"p3">>)>>)>>)>>,
     <<DDLProject(<<DDLScript(<<DDLClass("c2", <<"p3">>)>>)>>)>>}

ConstraintInputs ==
    [models : ConstraintModels, modifiers : {<<>>},
     ddl_scripts : ConstraintScripts, sql_type_names : {FactTypeNames}]

ConstraintsInit ==
    /\ project_input \in {Some(in) : in \in ConstraintInputs}
    /\ project_result = None
    /\ collections = <<>>
    /\ scripts_done = 0
    /\ project_pc = "loop"

InitConstraints ==
    GenIdle /\ ValueIdle /\ GuessIdle /\ CheckIdle /\ ConstraintsInit /\ AppIdle /\ ParserIdle

NextConstraints == AssembleScript \/ ReturnCollections

SpecConstraints == InitConstraints /\ [][NextConstraints]_vars

\* the places <<model, package, class, constraint>> of the constraints that have a
\* body and the property name
PlacesNaming(name) ==
    LET models == Unwrap(project_input).models
    IN  {place \in UNION {UNION {UNION {
                {<<m, p, c, k>> : k \in 1..Len(models[m].packages[p].classess[c].constraints)} :
                    c \in 1..Len(models[m].packages[p].classess)} :
                    p \in 1..Len(models[m].packages)} :
                    m \in 1..Len(models)} :
            LET constraint == models[place[1]].packages[place[2]].classess[place[3]]
                                  .constraints[place[4]]
            IN  /\ constraint.body # None
                /\ constraint.property_name = Some(name)}

Before(a, b) ==
    \E i \in 1..4 : a[i] < b[i] /\ \A j \in 1..(i - 1) : a[j] = b[j]

\* the body of the first of these constraints in model, package, class, constraint order
FirstBodyNaming(name) ==
    LET models == Unwrap(project_input).models
        place == CHOOSE a \in PlacesNaming(name) :
                    \A b \in PlacesNaming(name) : a = b \/ Before(a, b)
    IN  Unwrap(models[place[1]].packages[place[2]].classess[place[3]]
                   .constraints[place[4]].body)

\* C21: a column's check constraint is parsed from the first constraint, in model,
\* package, class, constraint order over all classes of all models, that has a body
\* and the column's property name, whichever class owns it; columns of the same name
\* get the same check constraint, and a column has none only when no such constraint
\* exists.
C21_CheckConstraintByNameAnywhere ==
    (ProjectReturned /\ Unwrap(project_result).ok) =>
        /\ \A pos \in ListedPositions :
            ColumnAt(pos).check_constraint =
                IF PlacesNaming(ColumnAt(pos).name) = {} THEN None
                ELSE Some(parse_check_constraint(FirstBodyNaming(ColumnAt(pos).name)))
        /\ \A pos, other \in ListedPositions :
            ColumnAt(pos).name = ColumnAt(other).name =>
                ColumnAt(pos).check_constraint = ColumnAt(other).check_constraint

\* c1 has a constraint of the name c1 without body only, c2 a free-form one and then
\* a list: the columns c1 of t1 and of t2 both carry the free-form constraint of c2
C21_Witness ==
    /\ ProjectReturned
    /\ Unwrap(project_result).ok
    /\ Len(ProjectScripts[1].classess) = 2
    /\ ClassessOf(Unwrap(project_input).models)[1].constraints
          = <<UMLConstraint(Some(ColumnName(1)), None)>>
    /\ ClassessOf(Unwrap(project_input).models)[2].constraints
          = <<UMLConstraint(Some(ColumnName(1)), Some(BodyFree)),
              UMLConstraint(Some(ColumnName(1)), Some(BodyXY))>>
    /\ ColumnAt(<<1, 1, 1>>).check_constraint = Some(Freeform(BodyFree))
    /\ ColumnAt(<<1, 2, 1>>).check_constraint = Some(Freeform(BodyFree))

\* the column c2 of t1 carries the constraint of class c3, which no script lists
C21_FromUnlistedClass ==
    /\ ProjectReturned
    /\ Unwrap(project_result).ok
    /\ Len(ProjectScripts[1].classess) = 2
    /\ ClassessOf(Unwrap(project_input).models)[1].constraints = <<>>
    /\ ClassessOf(Unwrap(project_input).models)[2].constraints = <<>>
    /\ ColumnAt(<<1, 1, 2>>).check_constraint = Some(OneOf(<<<<"z">>>>))

-----------------------------------------------------------------------------
(* App (src/app.rs:32-164): the fields and the handlers of its messages    *)

DEFAULT_ROWS_PER_TABLE == 20

\* lines 361-365
generate_table_guessess(table) ==
    [c \in 1..Len(table.columns) |-> generate_guess(table.columns[c])]

\* the range ends and the options the pickers are given in the model
PickerNumbers == {0, 1}
PickerTimes == {"Now", "Future", "Past"}
PickerBools == {"Random", "True", "False"}
PickerStrings == {"LoremIpsum", "FirstName", "LastName", "FullName", "Empty",
                  "PhoneNumber", "CityName", "Address", "Email", "URL"}

\* generator_picker (components/generator_picker.rs:92-192): the strategies its
\* onchange can deliver for a column showing the strategy value
generator_picker(column, value) ==
    CASE value.tag = "Int" ->
            IF column.primary_key THEN {}
            ELSE {IntRange(min, max) : min \in PickerNumbers, max \in PickerNumbers}
      [] value.tag = "Float" ->
            {FloatGuess(min, max) : min \in PickerNumbers, max \in PickerNumbers}
      [] value.tag = "Date" -> {DateGuess(t) : t \in PickerTimes}
      [] value.tag = "Time" -> {TimeGuess(t) : t \in PickerTimes}
      [] value.tag = "Datetime" -> {DatetimeGuess(t) : t \in PickerTimes}
      [] value.tag = "Bool" -> {BoolGuess(b) : b \in PickerBools}
      [] value.tag = "String" ->
            IF column.check_constraint # None /\ Unwrap(column.check_constraint).tag = "OneOf"
            THEN {}
            ELSE {[tag |-> "String", max_size |-> value.max_size, sub |-> [tag |-> s]] :
                    s \in PickerStrings}

\* the collections the App is given: a foreign key to a primary key, a foreign-key
\* cycle, a foreign key to a column the table does not have, an enumeration with
\* a two-byte character in a Char(1) column, and the collection of a DDL script
\* without classes
AppCollections ==
    {<<SQLTable(TableName(1),
                <<SQLColumn(ColumnName(1), SQLTypeInt, TRUE, FALSE, None, None),
                  SQLColumn(ColumnName(2), SQLTypeInt, FALSE, FALSE,
                            Some(<<TableName(2), ColumnName(1)>>), None)>>),
       SQLTable(TableName(2),
                <<SQLColumn(ColumnName(1), SQLTypeInt, TRUE, FALSE, None, None)>>)>>,
     <<SQLTable(TableName(1),
                <<SQLColumn(ColumnName(1), SQLTypeInt, FALSE, FALSE,
                            Some(<<TableName(2), ColumnName(1)>>), None)>>),
       SQLTable(TableName(2),
                <<SQLColumn(ColumnName(1), SQLTypeInt, FALSE, FALSE,
                            Some(<<TableName(1), ColumnName(1)>>), None)>>)>>,
     <<SQLTable(TableName(1),
                <<SQLColumn(ColumnName(1), SQLTypeInt, TRUE, FALSE, None, None),
                  SQLColumn(ColumnName(2), SQLTypeInt, FALSE, FALSE,
                            Some(<<TableName(2), ColumnName(2)>>), None)>>),
       SQLTable(TableName(2),
                <<SQLColumn(ColumnName(1), SQLTypeInt, TRUE, FALSE, None, None)>>)>>,
     <<SQLTable(TableName(1),
                <<SQLColumn(ColumnName(1), SQLTypeChar(1), FALSE, FALSE, None,
                            Some(OneOf(<<<<"x">>, <<"U2">>>>)))>>)>>,
     <<>>}

\* the fields the handler of GenerateSQL reads, and generated_sql
AppFields ==
    [current_collection |-> current_collection, current_guessess |-> current_guessess,
     currently_shown_table |-> currently_shown_table,
     self_rows_per_table |-> self_rows_per_table, generated_sql |-> generated_sql]

\* show_step2 (lines 229-256), rendered while a collection is loaded, indexes
\* collection[currently_shown_table] and current_guessess[currently_shown_table]
\* (lines 245-246): a panic when the index is not below their length
Step2Panics(collection, guessess, shown) ==
    collection # None /\ (shown >= Len(Unwrap(collection)) \/ shown >= Len(guessess))

\* create (lines 46-67) and the first view
AppInit ==
    /\ local_storage \in {None} \cup {Some(c) : c \in AppCollections}
    /\ current_collection = local_storage
    /\ current_guessess =
          IF local_storage = None THEN <<>>
          ELSE [t \in 1..Len(Unwrap(local_storage)) |->
                    generate_table_guessess(Unwrap(local_storage)[t])]
    /\ currently_shown_table = 0
    /\ all_good_confirmed = TRUE
    /\ generated_sql = None
    /\ self_rows_per_table = DEFAULT_ROWS_PER_TABLE
    /\ app_pc = IF Step2Panics(current_collection, current_guessess, 0) THEN "crashed"
                ELSE "ready"
    /\ before_generate = None
    /\ generate_outcome = None

\* the second step of the page is shown (lines 171-172)
Step2Shown == current_collection # None

\* the third step of the page is shown (lines 171-174)
Step3Shown == current_collection # None /\ all_good_confirmed

\* Msg::UpdateCurrentProject (lines 103-122) and the view that follows it
UpdateCurrentProject ==
    /\ app_pc = "ready"
    /\ \E collection \in {None} \cup {Some(c) : c \in AppCollections} :
        IF collection # None
        THEN /\ local_storage' = collection
             /\ currently_shown_table' = 0
             /\ all_good_confirmed' = FALSE
             /\ generated_sql' = None
             /\ current_guessess' = [t \in 1..Len(Unwrap(collection)) |->
                                        generate_table_guessess(Unwrap(collection)[t])]
             /\ current_collection' = collection
        ELSE /\ local_storage' = None
             /\ current_collection' = None
             /\ UNCHANGED <<currently_shown_table, all_good_confirmed, generated_sql,
                            current_guessess>>
    /\ app_pc' = IF Step2Panics(current_collection', current_guessess', currently_shown_table')
                 THEN "crashed" ELSE app_pc
    /\ generate_outcome' = None
    /\ UNCHANGED <<self_rows_per_table, before_generate>>
    /\ UNCHANGED <<genVars, valueVars, guessVars, checkVars, projectVars, parserVars>>

\* Msg::ShowNextTable (lines 123-130); collection.len() - 1 of an empty collection
\* overflows: a panic in a build with overflow checks, usize::MAX without
ShowNextTable ==
    /\ app_pc = "ready"
    /\ Step2Shown
    /\ IF Len(Unwrap(current_collection)) = 0
       THEN \/ app_pc' = "crashed" /\ UNCHANGED currently_shown_table
            \/ currently_shown_table' = currently_shown_table + 1 /\ UNCHANGED app_pc
       ELSE /\ currently_shown_table' =
                   IF currently_shown_table + 1 <= Len(Unwrap(current_collection)) - 1
                   THEN currently_shown_table + 1
                   ELSE Len(Unwrap(current_collection)) - 1
            /\ UNCHANGED app_pc
    /\ generate_outcome' = None
    /\ UNCHANGED <<current_collection, current_guessess, all_good_confirmed, generated_sql,
                   self_rows_per_table, local_storage, before_generate>>
    /\ UNCHANGED <<genVars, valueVars, guessVars, checkVars, projectVars, parserVars>>

\* Msg::ShowPrevTable (lines 131-137)
ShowPrevTable ==
    /\ app_pc = "ready"
    /\ Step2Shown
    /\ currently_shown_table' =
          IF currently_shown_table > 0 THEN currently_shown_table - 1
          ELSE currently_shown_table
    /\ generate_outcome' = None
    /\ UNCHANGED <<current_collection, current_guessess, all_good_confirmed, generated_sql,
                   self_rows_per_table, local_storage, app_pc, before_generate>>
    /\ UNCHANGED <<genVars, valueVars, guessVars, checkVars, projectVars, parserVars>>

\* Msg::AllGoodConfirmation (lines 138-141)
AllGoodConfirmation ==
    /\ app_pc = "ready"
    /\ Step2Shown
    /\ all_good_confirmed' = TRUE
    /\ generate_outcome' = None
    /\ UNCHANGED <<current_collection, current_guessess, currently_shown_table,
                   generated_sql, self_rows_per_table, local_storage, app_pc,
                   before_generate>>
    /\ UNCHANGED <<genVars, valueVars, guessVars, checkVars, projectVars, parserVars>>

\* Msg::UpdateGenarator (lines 142-147), sent by the picker of a column of the
\* shown table (lines 250-256)
UpdateGenarator ==
    /\ app_pc = "ready"
    /\ Step2Shown
    /\ currently_shown_table + 1 <= Len(current_guessess)
    /\ \E c \in 1..Len(Unwrap(current_collection)[currently_shown_table + 1].columns) :
        \E generator \in generator_picker(
                Unwrap(current_collection)[currently_shown_table + 1].columns[c],
                current_guessess[currently_shown_table + 1][c]) :
            current_guessess' =
                [current_guessess EXCEPT ![currently_shown_table + 1][c] = generator]
    /\ generate_outcome' = None
    /\ UNCHANGED <<current_collection, currently_shown_table, all_good_confirmed,
                   generated_sql, self_rows_per_table, local_storage, app_pc,
                   before_generate>>
    /\ UNCHANGED <<genVars, valueVars, guessVars, checkVars, projectVars, parserVars>>

\* Msg::UpdateRowsPerTable (lines 159-162), sent by the input of the third step
UpdateRowsPerTable ==
    /\ app_pc = "ready"
    /\ Step3Shown
    /\ self_rows_per_table' \in 0..MaxRows
    /\ generate_outcome' = None
    /\ UNCHANGED <<current_collection, current_guessess, currently_shown_table,
                   all_good_confirmed, generated_sql, local_storage, app_pc,
                   before_generate>>
    /\ UNCHANGED <<genVars, valueVars, guessVars, checkVars, projectVars, parserVars>>

\* Msg::GenerateSQL (lines 148-152): generate_fake_entries is called
GenerateSQL ==
    /\ app_pc = "ready"
    /\ Step3Shown
    /\ self_rows_per_table <= MaxRows
    /\ app_pc' = "generating"
    /\ before_generate' = Some(AppFields)
    /\ generate_outcome' = None
    /\ tables' = Unwrap(current_collection)
    /\ value_guessess' = current_guessess
    /\ rows_per_table' = self_rows_per_table
    /\ pc' = "start"
    /\ UNCHANGED <<all_foreign_columns, all_entries, entries_with_foreign_keys,
                   entries_with_foreign_keys_copy, before_retain, todo, passes, result>>
    /\ UNCHANGED <<current_collection, current_guessess, currently_shown_table,
                   all_good_confirmed, generated_sql, self_rows_per_table, local_storage>>
    /\ UNCHANGED <<valueVars, guessVars, checkVars, projectVars, parserVars>>

\* the locals of generate_fake_entries are gone when the call is over
CallOver ==
    /\ tables' = <<>> /\ value_guessess' = <<>> /\ rows_per_table' = 0
    /\ all_foreign_columns' = <<>> /\ all_entries' = <<>>
    /\ entries_with_foreign_keys' = {} /\ entries_with_foreign_keys_copy' = {}
    /\ before_retain' = 0 /\ todo' = {} /\ passes' = 0 /\ pc' = "idle" /\ result' = None

\* lines 152-158: generate_fake_entries has returned
GenerateSQLReturned ==
    /\ app_pc = "generating"
    /\ pc \in {"done", "failed"}
    /\ IF Unwrap(result).ok
       THEN generated_sql' = Some(Unwrap(result).statements) /\ generate_outcome' = Some("ok")
       ELSE generated_sql' = None /\ generate_outcome' = Some("err")
    /\ app_pc' = "ready"
    /\ CallOver
    /\ UNCHANGED <<current_collection, current_guessess, currently_shown_table,
                   all_good_confirmed, self_rows_per_table, local_storage, before_generate>>
    /\ UNCHANGED <<valueVars, guessVars, checkVars, projectVars, parserVars>>

\* generate_fake_entries has panicked: the handler is left without reaching line 153
\* or 155 and the page handles no further message
GenerateSQLPanicked ==
    /\ app_pc = "generating"
    /\ pc = "panicked"
    /\ generate_outcome' = Some("panic")
    /\ app_pc' = "crashed"
    /\ CallOver
    /\ UNCHANGED <<current_collection, current_guessess, currently_shown_table,
                   all_good_confirmed, generated_sql, self_rows_per_table, local_storage,
                   before_generate>>
    /\ UNCHANGED <<valueVars, guessVars, checkVars, projectVars, parserVars>>

InitApp == GenIdle /\ ValueIdle /\ GuessIdle /\ CheckIdle /\ ProjectIdle /\ AppInit /\ ParserIdle

NextApp ==
    \/ UpdateCurrentProject \/ ShowNextTable \/ ShowPrevTable \/ AllGoodConfirmation
    \/ UpdateGenarator \/ UpdateRowsPerTable
    \/ GenerateSQL \/ Generate \/ BeginPass \/ RetainStep \/ EndPass \/ Emit
    \/ GenerateSQLReturned \/ GenerateSQLPanicked

SpecApp == InitApp /\ [][NextApp]_vars

\* C11: when the call of generate_fake_entries made for a GenerateSQL message fails,
\* the collection, the strategies, the shown table and the row count are as they
\* were and the generated SQL text is cleared.
C11_FailedGenerationOnlyClearsSQL ==
    (generate_outcome # None /\ Unwrap(generate_outcome) # "ok") =>
        /\ generated_sql = None
        /\ current_collection = Unwrap(before_generate).current_collection
        /\ current_guessess = Unwrap(before_generate).current_guessess
        /\ currently_shown_table = Unwrap(before_generate).currently_shown_table
        /\ self_rows_per_table = Unwrap(before_generate).self_rows_per_table

\* no call of generate_fake_entries made by the App returns Err
GenerationNeverReturnsErr == generate_outcome # Some("err")


\* the index of the shown table is one of the loaded collection and of the strategies
ShownTableIsIndex ==
    current_collection # None =>
        /\ 0 <= currently_shown_table
        /\ currently_shown_table < Len(Unwrap(current_collection))
        /\ currently_shown_table < Len(current_guessess)

\* C30 as stated: after any UpdateCurrentProject, ShowNextTable and ShowPrevTable
\* messages, whenever a collection is loaded currently_shown_table is an index of it
\* and of current_guessess; loading a collection sets it to 0; ShowNextTable at the
\* last table and ShowPrevTable at table 0 leave it unchanged.
C30_ShownTableIsValidIndex ==
    /\ []ShownTableIsIndex
    /\ [][(UpdateCurrentProject /\ current_collection' # None) =>
                currently_shown_table' = 0]_vars
    /\ [][(ShowNextTable /\ currently_shown_table = Len(Unwrap(current_collection)) - 1) =>
                currently_shown_table' = currently_shown_table]_vars
    /\ [][(ShowPrevTable /\ currently_shown_table = 0) =>
                currently_shown_table' = currently_shown_table]_vars

\* what the code does: the same for every collection that has a table
C30_ShownTableIsValidIndexOfTables ==
    /\ []((current_collection # None /\ Unwrap(current_collection) # <<>>)
            => ShownTableIsIndex)
    /\ [][(UpdateCurrentProject /\ current_collection' # None) =>
                currently_shown_table' = 0]_vars
    /\ [][(ShowNextTable /\ currently_shown_table = Len(Unwrap(current_collection)) - 1) =>
                currently_shown_table' = currently_shown_table]_vars
    /\ [][(ShowPrevTable /\ currently_shown_table = 0) =>
                currently_shown_table' = currently_shown_table]_vars

\* the collection without tables is loaded: the index 0 is not one of its tables, and
\* the view that follows has ended the App
C30_EmptyCollectionLoaded ==
    /\ current_collection = Some(<<>>)
    /\ all_good_confirmed = FALSE
    /\ currently_shown_table = 0
    /\ app_pc = "crashed"

\* the last of two tables is shown
C30_LastTableShown ==
    /\ current_collection # None
    /\ Len(Unwrap(current_collection)) = 2
    /\ currently_shown_table = 1
    /\ app_pc = "ready"

-----------------------------------------------------------------------------
(* MyEventReader, parse_element and get_element_characters                 *)
(* (src/magicdraw_parser/utils.rs:7-137) under a parser function that      *)
(* descends into the elements it knows                                     *)

MaxEvents == 6

StartElement(name) == [kind |-> "StartElement", name |-> name]
EndElement == [kind |-> "EndElement"]
Characters == [kind |-> "Characters"]
EndDocument == [kind |-> "EndDocument"]
\* EventReader::next returns Err
ReaderError == [kind |-> "Error"]

\* what process_element does with a start element, by the element's name: the
\* closures of uml_model_parser.rs and ddl_parser.rs call a parser function that
\* descends (parse_element), read the text (get_element_characters), fail on a
\* missing attribute, or read nothing
VisitorOf(name) ==
    CASE name = "container" -> "parse_element"
      [] name = "body" -> "get_element_characters"
      [] name = "invalid" -> "fail"
      [] OTHER -> "nothing"

ElementNames == {"container", "body", "invalid", "leaf"}

EventsOfElements ==
    {StartElement(name) : name \in ElementNames} \cup {EndElement, Characters}

RECURSIVE LevelAfter(_, _)
\* the number of elements open after the first k events
LevelAfter(events, k) ==
    IF k = 0 THEN 0
    ELSE LevelAfter(events, k - 1)
            + (CASE events[k].kind = "StartElement" -> 1
                 [] events[k].kind = "EndElement" -> -1
                 [] OTHER -> 0)

\* the pairs of the events that begin a document and of the number of elements they
\* leave open, one event longer
Extended(begun) ==
    {<<Append(d[1], event),
       d[2] + (CASE event.kind = "StartElement" -> 1
                 [] event.kind = "EndElement" -> -1
                 [] OTHER -> 0)>> :
        d \in {open \in begun : open[2] >= 1}, event \in EventsOfElements}

\* what the reader delivers: after a complete document EndDocument; where the
\* document is cut off the xml library decides between an error and EndDocument
Delivered(begun) ==
    {Append(d[1], EndDocument) : d \in begun}
    \cup {Append(d[1], ReaderError) : d \in {open \in begun : open[2] >= 1}}

RECURSIVE StreamsFrom(_, _)
StreamsFrom(begun, longer) ==
    IF longer = 0 THEN Delivered(begun)
    ELSE Delivered(begun) \cup StreamsFrom(Extended(begun), longer - 1)

\* the streams of the documents of at most n events with one root element, complete
\* or cut off; only the last event may close the root
ReaderStreams(n) ==
    StreamsFrom({<<<<StartElement(name)>>, 1>> : name \in ElementNames}, n - 1)

ReaderInit ==
    /\ xml_events \in ReaderStreams(MaxEvents)
    /\ xml_consumed = 0
    /\ xml_depth = 0
    /\ xml_frames = <<>>
    /\ xml_readers = <<>>
    /\ xml_visits = <<>>
    /\ xml_returns = <<>>
    /\ xml_outcome = None
    /\ document = None /\ document_result = None

EndOfDocument == Err("Unexpected end of XML document")

\* lines 15-19: the depth after event
DepthAfter(event) ==
    CASE event.kind = "StartElement" -> xml_depth + 1
      [] event.kind = "EndElement" -> xml_depth - 1
      [] OTHER -> xml_depth

\* lines 122 and 127 with the early test: the depth is back at the one of entry
UnwoundToEntry(depth, starting_depth) == depth = starting_depth

\* lines 122 and 127
Unwound(depth, starting_depth) == depth = starting_depth - 1

ParseElementFrame(starting_depth, entry) ==
    [kind |-> "parse_element", starting_depth |-> starting_depth, entry |-> entry,
     state |-> "loop"]

Top == xml_frames[Len(xml_frames)]

\* the frames after the call on top has returned Ok: its caller, if the call was
\* made inside process_element, is back from process_element
Popped ==
    LET rest == SubSeq(xml_frames, 1, Len(xml_frames) - 1)
    IN  IF rest = <<>> THEN rest
        ELSE [rest EXCEPT ![Len(rest)].state = "visited"]

NextEvent == xml_events[xml_consumed + 1]

Running == xml_outcome = None /\ xml_consumed < Len(xml_events)

OthersIdle == UNCHANGED <<genVars, valueVars, guessVars, checkVars, projectVars, appVars>>

\* uml_model_parser.rs:280-342, ddl_parser.rs:128-138: the loop of a parser function
\* that calls parse_element for the start elements it knows
ReadTop ==
    /\ Running
    /\ xml_frames = <<>>
    /\ xml_consumed' = xml_consumed + 1
    /\ xml_depth' = DepthAfter(NextEvent)
    /\ xml_readers' = Append(xml_readers, [by |-> "top", entry |-> 0])
    /\ xml_frames' = IF /\ NextEvent.kind = "StartElement"
                        /\ VisitorOf(NextEvent.name) = "parse_element"
                     THEN <<ParseElementFrame(xml_depth', xml_consumed')>>
                     ELSE <<>>
    /\ xml_outcome' = CASE NextEvent.kind = "EndDocument" -> Some(Ok("top"))
                        [] NextEvent.kind = "Error" -> Some(Err("xml"))
                        [] OTHER -> None
    /\ UNCHANGED <<xml_events, xml_visits, xml_returns, document, document_result>>
    /\ OthersIdle

\* lines 116-133: one event read by the loop of parse_element
ParseElementNext ==
    /\ Running
    /\ xml_frames # <<>>
    /\ Top.kind = "parse_element"
    /\ Top.state = "loop"
    /\ xml_consumed' = xml_consumed + 1
    /\ xml_depth' = DepthAfter(NextEvent)
    /\ xml_readers' = Append(xml_readers, [by |-> "parse_element", entry |-> Top.entry])
    /\ CASE NextEvent.kind = "StartElement" ->
                /\ xml_visits' = Append(xml_visits, <<Top.entry, xml_consumed'>>)
                /\ LET called == VisitorOf(NextEvent.name)
                       waiting == [xml_frames EXCEPT ![Len(xml_frames)].state = "visiting"]
                   IN  /\ xml_frames' =
                            CASE called = "parse_element" ->
                                    Append(waiting, ParseElementFrame(xml_depth', xml_consumed'))
                              [] called = "get_element_characters" ->
                                    Append(waiting, [kind |-> "get_element_characters",
                                                     entry |-> xml_consumed'])
                              [] called = "nothing" ->
                                    [xml_frames EXCEPT ![Len(xml_frames)].state = "visited"]
                              [] called = "fail" -> xml_frames
                       /\ xml_outcome' = IF called = "fail" THEN Some(Err("process_element"))
                                                            ELSE None
                /\ UNCHANGED xml_returns
         [] NextEvent.kind = "EndElement" ->
                /\ IF Unwound(xml_depth', Top.starting_depth)
                   THEN /\ xml_frames' = Popped
                        /\ xml_returns' =
                                Append(xml_returns,
                                       [entry |-> Top.entry, starting_depth |-> Top.starting_depth,
                                        depth |-> xml_depth', consumed |-> xml_consumed'])
                   ELSE UNCHANGED <<xml_frames, xml_returns>>
                /\ UNCHANGED <<xml_visits, xml_outcome>>
         [] NextEvent.kind = "EndDocument" ->
                /\ xml_outcome' = Some(EndOfDocument)
                /\ UNCHANGED <<xml_frames, xml_visits, xml_returns>>
         [] NextEvent.kind = "Error" ->
                /\ xml_outcome' = Some(Err("xml"))
                /\ UNCHANGED <<xml_frames, xml_visits, xml_returns>>
         [] NextEvent.kind = "Characters" ->
                UNCHANGED <<xml_frames, xml_visits, xml_returns, xml_outcome>>
    /\ UNCHANGED <<xml_events, document, document_result>>
    /\ OthersIdle

\* lines 121-124: process_element has returned Ok
VisitorReturned ==
    /\ xml_outcome = None
    /\ xml_frames # <<>>
    /\ Top.kind = "parse_element"
    /\ Top.state = "visited"
    /\ IF Unwound(xml_depth, Top.starting_depth)
       THEN /\ xml_frames' = Popped
            /\ xml_returns' =
                    Append(xml_returns,
                           [entry |-> Top.entry, starting_depth |-> Top.starting_depth,
                            depth |-> xml_depth, consumed |-> xml_consumed])
       ELSE /\ xml_frames' = [xml_frames EXCEPT ![Len(xml_frames)].state = "loop"]
            /\ UNCHANGED xml_returns
    /\ UNCHANGED <<xml_events, xml_consumed, xml_depth, xml_readers, xml_visits,
                   xml_outcome, document, document_result>>
    /\ OthersIdle

\* lines 93-103: one event read by the loop of get_element_characters; at
\* EndDocument the loop goes on and no later event ends it
GetElementCharactersNext ==
    /\ Running
    /\ xml_frames # <<>>
    /\ Top.kind = "get_element_characters"
    /\ xml_consumed' = xml_consumed + 1
    /\ xml_depth' = DepthAfter(NextEvent)
    /\ xml_readers' = Append(xml_readers, [by |-> "get_element_characters",
                                           entry |-> Top.entry])
    /\ xml_frames' = IF NextEvent.kind = "EndElement" THEN Popped ELSE xml_frames
    /\ xml_outcome' = CASE NextEvent.kind = "Error" -> Some(Err("xml"))
                        [] NextEvent.kind = "EndDocument" -> Some(Err("no return"))
                        [] OTHER -> None
    /\ UNCHANGED <<xml_events, xml_visits, xml_returns, document, document_result>>
    /\ OthersIdle

InitReader ==
    GenIdle /\ ValueIdle /\ GuessIdle /\ CheckIdle /\ ProjectIdle /\ AppIdle /\ ReaderInit

NextReader == ReadTop \/ ParseElementNext \/ VisitorReturned \/ GetElementCharactersNext

SpecReader == InitReader /\ [][NextReader]_vars

\* the index of the end element that closes the element begun by event i, 0 when the
\* events do not close it
MatchingEnd(i) ==
    LET closing == {j \in (i + 1)..Len(xml_events) :
                        /\ xml_events[j].kind = "EndElement"
                        /\ LevelAfter(xml_events, j) = LevelAfter(xml_events, i) - 1}
    IN  IF closing = {} THEN 0 ELSE Min(closing)

ReadOfKind(kind) == {i \in 1..xml_consumed : xml_events[i].kind = kind}

\* the frames of parse_element that have not returned
DescendsRunning ==
    {xml_frames[f] : f \in {g \in 1..Len(xml_frames) : xml_frames[g].kind = "parse_element"}}

\* C23: parse_element is entered at a depth d >= 1 and returns Ok only at depth d - 1,
\* with the end of the element that was open at entry as the last event read, and it
\* is running as long as that end has not been read; process_element is called once
\* for every start element parse_element read itself, by the call that read it, and
\* for no other; parse_element fails with EndOfDocument exactly when it reads
\* EndDocument; the depth is the number of start elements read minus the number of
\* end elements read.
C23_DescendUnwindsToEntry ==
    /\ \A r \in 1..Len(xml_returns) :
        /\ xml_returns[r].starting_depth >= 1
        /\ xml_returns[r].depth = xml_returns[r].starting_depth - 1
        /\ xml_returns[r].consumed = MatchingEnd(xml_returns[r].entry)
    /\ \A frame \in DescendsRunning :
        /\ frame.starting_depth >= 1
        /\ MatchingEnd(frame.entry) = 0 \/ xml_consumed < MatchingEnd(frame.entry)
    /\ \A v, w \in 1..Len(xml_visits) : xml_visits[v] = xml_visits[w] => v = w
    /\ {xml_visits[v] : v \in 1..Len(xml_visits)}
          = {<<xml_readers[i].entry, i>> :
                i \in {j \in ReadOfKind("StartElement") : xml_readers[j].by = "parse_element"}}
    /\ xml_outcome = Some(EndOfDocument)
          <=> /\ xml_consumed >= 1
              /\ xml_events[xml_consumed].kind = "EndDocument"
              /\ xml_readers[xml_consumed].by = "parse_element"
    /\ xml_depth = Cardinality(ReadOfKind("StartElement")) - Cardinality(ReadOfKind("EndElement"))

\* a call of parse_element inside process_element has returned at depth 1, then the
\* calling parse_element at depth 0, and the document was read to its end; the start
\* element read by the inner call was visited by the inner call only
C23_Witness ==
    /\ xml_outcome = Some(Ok("top"))
    /\ Len(xml_returns) = 2
    /\ xml_returns[1].starting_depth = 2 /\ xml_returns[1].depth = 1
    /\ xml_returns[2].starting_depth = 1 /\ xml_returns[2].depth = 0
    /\ xml_visits = <<<<1, 2>>, <<2, 3>>>>

\* the document is cut off inside a descend and the reader reports EndDocument
C23_EndOfDocumentInsideDescend ==
    /\ xml_outcome = Some(EndOfDocument)
    /\ Len(xml_frames) = 2
    /\ xml_depth = 2

-----------------------------------------------------------------------------
(* parse_constraint (src/magicdraw_parser/uml_model_parser.rs:121-169)     *)

MaxChildren == 3

\* the start elements process_element is called for inside an ownedRule element, in
\* document order: the name, the xmi:idref attribute, the text get_element_characters
\* returns for the element
ChildElement(name, idref, text) == [name |-> name, idref |-> idref, text |-> text]

RECURSIVE FindFrom(_, _, _)
\* str::find: the least i >= from with pat at str[i..], 0 when there is none
FindFrom(str, pat, from) ==
    IF from + Len(pat) - 1 > Len(str) THEN 0
    ELSE IF SubSeq(str, from, from + Len(pat) - 1) = pat THEN from
    ELSE FindFrom(str, pat, from + 1)

RECURSIVE FindLastFrom(_, _, _)
FindLastFrom(str, pat, from) ==
    IF from < 1 THEN 0
    ELSE IF from + Len(pat) - 1 <= Len(str) /\ SubSeq(str, from, from + Len(pat) - 1) = pat
         THEN from
    ELSE FindLastFrom(str, pat, from - 1)

\* str::rsplit_once
split_once_last(str, pat) ==
    LET at == FindLastFrom(str, pat, Len(str))
    IN  IF at = 0 THEN None
        ELSE Some(<<SubSeq(str, 1, at - 1), SubSeq(str, at + Len(pat), Len(str))>>)

\* str::split_once
split_once(str, pat) ==
    LET at == FindFrom(str, pat, 1)
    IN  IF at = 0 THEN None
        ELSE Some(<<SubSeq(str, 1, at - 1), SubSeq(str, at + Len(pat), Len(str))>>)

ParsedConstraint(id, class_id, property_id, property_name, body) ==
    [id |-> id, class_id |-> class_id, property_id |-> property_id,
     property_name |-> property_name, body |-> body]

RECURSIVE constraint_fields(_, _)
\* lines 130-144: the three locals after process_element was called for children
constraint_fields(children, fields) ==
    IF children = <<>> THEN fields
    ELSE LET child == Head(children)
             after ==
                IF child.name = "constrainedElement" /\ fields.constrainted_element_id = None
                    THEN [fields EXCEPT !.constrainted_element_id = child.idref]
                ELSE IF child.name = "body" /\ fields.body = None
                    THEN IF Len(child.text) > 0 THEN [fields EXCEPT !.body = Some(child.text)]
                         ELSE fields
                ELSE IF child.name = "language" /\ fields.language = None
                    THEN [fields EXCEPT !.language = Some(child.text)]
                ELSE fields
         IN  constraint_fields(Tail(children), after)

\* lines 121-169
parse_constraint(id, children) ==
    IF id = None THEN Err("XML attribute 'xmi:id' not found")
    ELSE LET fields == constraint_fields(children,
                            [constrainted_element_id |-> None, language |-> None, body |-> None])
             halves == split_once(Unwrap(fields.body), <<" ", "i", "n", " ">>)
         IN  IF /\ fields.language = Some(<<"S", "Q", "L">>)
                /\ fields.body # None
                /\ halves # None
             THEN IF fields.constrainted_element_id = None
                  THEN Err("Missing constraint class id")
                  ELSE Ok(Some(ParsedConstraint(Unwrap(id), fields.constrainted_element_id, None,
                                                Some(Unwrap(halves)[1]),
                                                Some(<<"i", "n", " ">> \o Unwrap(halves)[2]))))
             ELSE IF fields.constrainted_element_id = None THEN Ok(None)
             ELSE Ok(Some(ParsedConstraint(Unwrap(id), None, fields.constrainted_element_id,
                                           None, None)))

ChildSamples ==
    {ChildElement("constrainedElement", idref, <<>>) : idref \in {None, Some("e1"), Some("e2")}}
    \cup {ChildElement("body", None, text) :
            text \in {<<>>, <<"a", " ", "i", "n", " ", "(", "1", ")">>, <<"a", " ", "i", "n", " ", "b", " ", "i", "n", " ", "c">>, <<" ", "i", "n", " ", "x">>, <<"a", " ", "=", " ", "1">>, <<"i", "n", " ", "(", "1", ")">>}}
    \cup {ChildElement("language", None, text) : text \in {<<"S", "Q", "L">>, <<"s", "q", "l">>, <<>>}}
    \cup {ChildElement("specification", None, <<>>)}

ConstraintElements ==
    [id : {None, Some("k1")}, children : SeqsUpTo(ChildSamples, MaxChildren)]

ConstraintElementInit ==
    /\ document \in {Some(element) : element \in ConstraintElements}
    /\ document_result = None
    /\ xml_events = <<>> /\ xml_consumed = 0 /\ xml_depth = 0 /\ xml_frames = <<>>
    /\ xml_readers = <<>> /\ xml_visits = <<>> /\ xml_returns = <<>> /\ xml_outcome = None

\* one call of parse_constraint
ParseConstraint ==
    /\ document # None
    /\ document_result = None
    /\ document_result' = Some(parse_constraint(Unwrap(document).id, Unwrap(document).children))
    /\ UNCHANGED <<document, xml_events, xml_consumed, xml_depth, xml_frames, xml_readers,
                   xml_visits, xml_returns, xml_outcome>>
    /\ OthersIdle

InitConstraintElement ==
    GenIdle /\ ValueIdle /\ GuessIdle /\ CheckIdle /\ ProjectIdle /\ AppIdle
        /\ ConstraintElementInit

NextConstraintElement == ParseConstraint

SpecConstraintElement == InitConstraintElement /\ [][NextConstraintElement]_vars

\* the children of the name that satisfy Usable, in document order
ChildrenNamed(name, Usable(_)) ==
    LET Wanted(child) == child.name = name /\ Usable(child)
    IN  SelectSeq(Unwrap(document).children, Wanted)

HasIdref(child) == child.idref # None
HasText(child) == child.text # <<>>
Any(child) == TRUE

\* the constraint's language, body and constrained element id
LanguageOf ==
    IF ChildrenNamed("language", Any) = <<>> THEN None
    ELSE Some(Head(ChildrenNamed("language", Any)).text)
BodyTextOf ==
    IF ChildrenNamed("body", HasText) = <<>> THEN None
    ELSE Some(Head(ChildrenNamed("body", HasText)).text)
ConstrainedElementOf ==
    IF ChildrenNamed("constrainedElement", HasIdref) = <<>> THEN None
    ELSE Head(ChildrenNamed("constrainedElement", HasIdref)).idref

\* the text holds " in " at i
InAt(text, i) == i + 3 <= Len(text) /\ SubSeq(text, i, i + 3) = <<" ", "i", "n", " ">>

\* the body holds " in " at i and not before
FirstInAt(i) ==
    /\ InAt(Unwrap(BodyTextOf), i)
    /\ \A j \in 1..(i - 1) : ~InAt(Unwrap(BodyTextOf), j)

IsSqlList ==
    /\ LanguageOf = Some(<<"S", "Q", "L">>)
    /\ BodyTextOf # None
    /\ \E i \in 1..Len(Unwrap(BodyTextOf)) : FirstInAt(i)

ClassLevel(parsed) ==
    LET text == Unwrap(BodyTextOf)
        i == CHOOSE k \in 1..Len(text) : FirstInAt(k)
    IN  /\ parsed.ok /\ parsed.value # None
        /\ Unwrap(parsed.value).property_name = Some(SubSeq(text, 1, i - 1))
        /\ Unwrap(parsed.value).body = Some(<<"i", "n", " ">> \o SubSeq(text, i + 4, Len(text)))
        /\ Unwrap(parsed.value).class_id # None
        /\ Unwrap(parsed.value).property_id = None

PropertyLevel(parsed) ==
    /\ parsed.ok /\ parsed.value # None
    /\ Unwrap(parsed.value).property_id = ConstrainedElementOf
    /\ Unwrap(parsed.value).body = None
    /\ Unwrap(parsed.value).class_id = None
    /\ Unwrap(parsed.value).property_name = None

Discarded(parsed) == parsed.ok /\ parsed.value = None

ParsedElement == document_result # None /\ Unwrap(document).id # None

\* C24 as stated: a constraint of language SQL with a body that holds " in " is a
\* class-level constraint; otherwise one with a constrained element id is a
\* property-level constraint; otherwise it is discarded without error.
C24_ThreeOutcomes ==
    ParsedElement =>
        LET parsed == Unwrap(document_result)
        IN  IF IsSqlList THEN ClassLevel(parsed)
            ELSE IF ConstrainedElementOf # None THEN PropertyLevel(parsed)
            ELSE Discarded(parsed)

\* C24: a constraint of language SQL with a body that holds " in " is a class-level
\* constraint with the constrained element id as class_id when it has one, and makes
\* parse_constraint fail with 'Missing constraint class id' when it has none;
\* otherwise one with a constrained element id is a property-level constraint;
\* otherwise it is discarded without error.
C24_ThreeOutcomesOrMissingClassId ==
    ParsedElement =>
        LET parsed == Unwrap(document_result)
        IN  IF IsSqlList
            THEN IF ConstrainedElementOf # None
                 THEN ClassLevel(parsed)
                      /\ Unwrap(parsed.value).class_id = ConstrainedElementOf
                 ELSE parsed = Err("Missing constraint class id")
            ELSE IF ConstrainedElementOf # None THEN PropertyLevel(parsed)
            ELSE Discarded(parsed)

\* an SQL constraint "a in b in c" without constrained element id
C24_Witness ==
    /\ ParsedElement
    /\ LanguageOf = Some(<<"S", "Q", "L">>)
    /\ BodyTextOf = Some(<<"a", " ", "i", "n", " ", "b", " ", "i", "n", " ", "c">>)
    /\ ConstrainedElementOf = None
    /\ Unwrap(document_result) = Err("Missing constraint class id")

\* the same constraint with a constrained element id is split at the first " in "
C24_ClassLevel ==
    /\ ParsedElement
    /\ BodyTextOf = Some(<<"a", " ", "i", "n", " ", "b", " ", "i", "n", " ", "c">>)
    /\ Unwrap(document_result)
          = Ok(Some(ParsedConstraint("k1", Some("e1"), None, Some(<<"a">>), Some(<<"i", "n", " ", "b", " ", "i", "n", " ", "c">>))))

-----------------------------------------------------------------------------
(* parse_ddl_scripts (src/magicdraw_parser/ddl_parser.rs:31-141)           *)

MaxReferences == 3

\* an element of the DDL document: its name, its xsi:type and href attributes
\* (href None when the attribute is absent) and its child elements
Element(name, type, href, children) ==
    [name |-> name, type |-> type, href |-> href, children |-> children]

\* lines 31-35
get_id_from_href(element) ==
    IF element.href = None THEN None
    ELSE LET parts == split_once(Unwrap(element.href), <<"#">>)
         IN  IF parts = None THEN None ELSE Some(Unwrap(parts)[2])

\* the hashless variant: the whole href is the id
get_id_from_href_whole(element) == element.href

IsKind(element, name, type) == element.name = name /\ element.type = type

RECURSIVE VisitedElements(_, _)
\* the start elements parse_element hands to process_element, in document order:
\* every descendant, except those inside an element that process_element gave to a
\* parser function of its own (the elements of the nested kind)
VisitedElements(children, nested) ==
    IF children = <<>> THEN <<>>
    ELSE LET element == Head(children)
         IN  <<element>>
             \o (IF IsKind(element, nested[1], nested[2]) THEN <<>>
                 ELSE VisitedElements(element.children, nested))
             \o VisitedElements(Tail(children), nested)

NoNested == <<"", "">>
ClassObject == <<"objects", "md.ce.rt.objects:RTClassObject">>
ComponentObject == <<"objects", "md.ce.rt.objects:RTComponent">>
ProjectObject == <<"contents", "md.ce.ddl.rt.objects:DDLProjectObject">>

\* the only element of a set of one element
Only(S) == CHOOSE x \in S : TRUE

\* lines 49-56: one call of the closure of parse_class
class_closure(fields, element) ==
    IF IsKind(element, "modelElement", "uml:Class") /\ fields.id = None
        THEN [fields EXCEPT !.id = get_id_from_href(element)]
    ELSE IF IsKind(element, "modelElement", "uml:Property")
        THEN IF get_id_from_href(element) = None
             THEN [fields EXCEPT !.error = Some("Property id not found")]
             ELSE [fields EXCEPT !.items = Append(@, Unwrap(get_id_from_href(element)))]
    ELSE fields

RECURSIVE class_fields(_, _)
\* the locals of parse_class after parse_element called the closure for the elements,
\* up to the first error
class_fields(elements, fields) ==
    IF elements = <<>> \/ fields.error # None THEN fields
    ELSE Only({class_fields(Tail(elements), after) :
                after \in {class_closure(fields, Head(elements))}})

NoFields == [id |-> None, items |-> <<>>, error |-> None]

\* lines 37-62
ddl_parse_class(element) ==
    Only({IF fields.error # None THEN Err(Unwrap(fields.error))
          ELSE IF fields.id = None THEN Err("Missing class id")
          ELSE Ok([class_id |-> Unwrap(fields.id), property_ids |-> fields.items]) :
            fields \in {class_fields(VisitedElements(element.children, NoNested), NoFields)}})

\* lines 75-82: one call of the closure of parse_script
script_closure(fields, element) ==
    IF IsKind(element, "modelElement", "uml:Component") /\ fields.id = None
        THEN [fields EXCEPT !.id = get_id_from_href(element)]
    ELSE IF IsKind(element, ClassObject[1], ClassObject[2])
        THEN Only({IF class.ok THEN [fields EXCEPT !.items = Append(@, class.value)]
                   ELSE [fields EXCEPT !.error = Some(class.error)] :
                     class \in {ddl_parse_class(element)}})
    ELSE fields

RECURSIVE script_fields(_, _)
script_fields(elements, fields) ==
    IF elements = <<>> \/ fields.error # None THEN fields
    ELSE Only({script_fields(Tail(elements), after) :
                after \in {script_closure(fields, Head(elements))}})

\* lines 64-89
ddl_parse_script(element) ==
    Only({IF fields.error # None THEN Err(Unwrap(fields.error))
          ELSE IF fields.id = None THEN Err("Missing script id")
          ELSE Ok([script_id |-> Unwrap(fields.id), classess |-> fields.items]) :
            fields \in {script_fields(VisitedElements(element.children, ClassObject), NoFields)}})

\* lines 102-109: one call of the closure of parse_project
project_closure(fields, element) ==
    IF IsKind(element, "modelElement", "uml:Model") /\ fields.id = None
        THEN [fields EXCEPT !.id = get_id_from_href(element)]
    ELSE IF IsKind(element, ComponentObject[1], ComponentObject[2])
        THEN Only({IF script.ok THEN [fields EXCEPT !.items = Append(@, script.value)]
                   ELSE [fields EXCEPT !.error = Some(script.error)] :
                     script \in {ddl_parse_script(element)}})
    ELSE fields

RECURSIVE project_fields(_, _)
project_fields(elements, fields) ==
    IF elements = <<>> \/ fields.error # None THEN fields
    ELSE Only({project_fields(Tail(elements), after) :
                after \in {project_closure(fields, Head(elements))}})

\* lines 91-116
ddl_parse_project(element) ==
    Only({IF fields.error # None THEN Err(Unwrap(fields.error))
          ELSE IF fields.id = None THEN Err("Missing model id")
          ELSE Ok([model_id |-> Unwrap(fields.id), scripts |-> fields.items]) :
            fields \in {project_fields(VisitedElements(element.children, ComponentObject),
                                       NoFields)}})

\* lines 130-134: the StartElement arm of the loop of parse_ddl_scripts
ddl_scripts_arm(fields, element) ==
    IF IsKind(element, ProjectObject[1], ProjectObject[2])
        THEN Only({IF project.ok THEN [fields EXCEPT !.items = Append(@, project.value)]
                   ELSE [fields EXCEPT !.error = Some(project.error)] :
                     project \in {ddl_parse_project(element)}})
    ELSE fields

RECURSIVE ddl_scripts_fields(_, _)
ddl_scripts_fields(elements, fields) ==
    IF elements = <<>> \/ fields.error # None THEN fields
    ELSE Only({ddl_scripts_fields(Tail(elements), after) :
                after \in {ddl_scripts_arm(fields, Head(elements))}})

\* lines 118-141, for a document that is read to its end
parse_ddl_scripts(root) ==
    Only({IF fields.error # None THEN Err(Unwrap(fields.error)) ELSE Ok(fields.items) :
            fields \in {ddl_scripts_fields(VisitedElements(<<root>>, ProjectObject), NoFields)}})

Hrefs == {None, Some(<<"l", "o", "c", "a", "l">>), Some(<<"f", "#", "i", "1">>), Some(<<"f", "#", "i", "2">>), Some(<<"f", "#", "i", "3", "#", "x">>)}

Reference(type, href) == Element("modelElement", type, href, <<>>)

\* the children a container of the kind is varied over: references of its own kind with
\* every href, one wrapped in another element, and a reference of another kind
ReferenceSamples(type, other) ==
    {Reference(type, href) : href \in Hrefs}
    \cup {Element("extension", "", None, <<Reference(type, Some(<<"g", "#", "i", "4">>))>>)}
    \cup {Reference(other, Some(<<"f", "#", "i", "5">>))}

GoodClass ==
    Element(ClassObject[1], ClassObject[2], None,
            <<Reference("uml:Class", Some(<<"f", "#", "c", "1">>)),
              Element("objects", "md.ce.rt.objects:RTAttributeObject", None,
                      <<Reference("uml:Property", Some(<<"f", "#", "p", "1">>))>>)>>)

GoodScript(classes) ==
    Element(ComponentObject[1], ComponentObject[2], None,
            <<Reference("uml:Component", Some(<<"f", "#", "s", "1">>))>> \o classes)

GoodProject(scripts) ==
    Element(ProjectObject[1], ProjectObject[2], None,
            <<Reference("uml:Model", Some(<<"f", "#", "m", "1">>))>> \o scripts)

Root(projects) == Element("project", "", None, projects)

\* documents with one container varied at one level
DdlDocuments ==
    {[level |-> "class",
      root |-> Root(<<GoodProject(<<GoodScript(
                  <<Element(ClassObject[1], ClassObject[2], None, children)>>)>>)>>)] :
        children \in SeqsUpTo(ReferenceSamples("uml:Class", "uml:Property"), MaxReferences)}
    \cup
    {[level |-> "script",
      root |-> Root(<<GoodProject(
                  <<Element(ComponentObject[1], ComponentObject[2], None,
                            children \o <<GoodClass>>)>>)>>)] :
        children \in SeqsUpTo(ReferenceSamples("uml:Component", "uml:Class"), MaxReferences)}
    \cup
    {[level |-> "project",
      root |-> Root(<<Element(ProjectObject[1], ProjectObject[2], None,
                              <<GoodScript(<<GoodClass>>)>> \o children)>>)] :
        children \in SeqsUpTo(ReferenceSamples("uml:Model", "uml:Component"), MaxReferences)}

DdlInit ==
    /\ document \in {Some(ddl) : ddl \in DdlDocuments}
    /\ document_result = None
    /\ xml_events = <<>> /\ xml_consumed = 0 /\ xml_depth = 0 /\ xml_frames = <<>>
    /\ xml_readers = <<>> /\ xml_visits = <<>> /\ xml_returns = <<>> /\ xml_outcome = None

\* one call of parse_ddl_scripts
ParseDdlScripts ==
    /\ document # None
    /\ document_result = None
    /\ document_result' = Some(parse_ddl_scripts(Unwrap(document).root))
    /\ UNCHANGED <<document, xml_events, xml_consumed, xml_depth, xml_frames, xml_readers,
                   xml_visits, xml_returns, xml_outcome>>
    /\ OthersIdle

InitDdl ==
    GenIdle /\ ValueIdle /\ GuessIdle /\ CheckIdle /\ ProjectIdle /\ AppIdle /\ DdlInit

NextDdl == ParseDdlScripts

SpecDdl == InitDdl /\ [][NextDdl]_vars

\* the container that is varied in the document, and the kind of its references
VariedContainer ==
    LET project == Unwrap(document).root.children[1]
        script == SelectSeq(project.children,
                            LAMBDA e : IsKind(e, ComponentObject[1], ComponentObject[2]))[1]
        class == SelectSeq(script.children,
                           LAMBDA e : IsKind(e, ClassObject[1], ClassObject[2]))[1]
    IN  CASE Unwrap(document).level = "project" -> project
          [] Unwrap(document).level = "script" -> script
          [] Unwrap(document).level = "class" -> class

ReferenceKind ==
    CASE Unwrap(document).level = "project" -> "uml:Model"
      [] Unwrap(document).level = "script" -> "uml:Component"
      [] Unwrap(document).level = "class" -> "uml:Class"

NestedKind ==
    CASE Unwrap(document).level = "project" -> ComponentObject
      [] Unwrap(document).level = "script" -> ClassObject
      [] Unwrap(document).level = "class" -> NoNested

MissingId ==
    CASE Unwrap(document).level = "project" -> Err("Missing model id")
      [] Unwrap(document).level = "script" -> Err("Missing script id")
      [] Unwrap(document).level = "class" -> Err("Missing class id")

\* the id the returned projects give the varied container
ReturnedId ==
    LET project == Unwrap(document_result).value[1]
    IN  CASE Unwrap(document).level = "project" -> project.model_id
          [] Unwrap(document).level = "script" -> project.scripts[1].script_id
          [] Unwrap(document).level = "class" -> project.scripts[1].classess[1].class_id

\* the modelElement references of the container's kind at its level, in document order
ReferencesOfKind ==
    SelectSeq(VisitedElements(VariedContainer.children, NestedKind),
              LAMBDA e : IsKind(e, "modelElement", ReferenceKind))

HasHash(href) == \E i \in 1..Len(href) : href[i] = "#"

\* the text after the first '#'
AfterHash(href) ==
    LET i == CHOOSE k \in 1..Len(href) : href[k] = "#" /\ \A j \in 1..(k - 1) : href[j] # "#"
    IN  SubSeq(href, i + 1, Len(href))

Usable(reference) == reference.href # None /\ HasHash(Unwrap(reference.href))

ParsedDdl == document_result # None

\* C25 as stated: the id of a container is the text after '#' in the href of the first
\* modelElement reference of its kind at its level, later ones being ignored; a
\* container without such a reference makes parse_ddl_scripts fail with 'Missing ... id'.
C25_FirstReferenceGivesId ==
    ParsedDdl =>
        /\ ReferencesOfKind = <<>> => Unwrap(document_result) = MissingId
        /\ (ReferencesOfKind # <<>> /\ Unwrap(document_result).ok) =>
                /\ Usable(ReferencesOfKind[1])
                /\ ReturnedId = AfterHash(Unwrap(ReferencesOfKind[1].href))

\* what the code does: the id is that of the first reference whose href holds a '#';
\* a container without such a reference fails
C25_FirstUsableReferenceGivesId ==
    ParsedDdl =>
        LET usable == SelectSeq(ReferencesOfKind, Usable)
        IN  IF usable = <<>> THEN Unwrap(document_result) = MissingId
            ELSE /\ Unwrap(document_result).ok
                 /\ ReturnedId = AfterHash(Unwrap(usable[1].href))

\* a class object whose first uml:Class reference has an href without '#' and whose
\* second has one gets the id of the second
C25_LaterReferenceTaken ==
    /\ ParsedDdl
    /\ Unwrap(document).level = "class"
    /\ Len(ReferencesOfKind) = 2
    /\ ~Usable(ReferencesOfKind[1])
    /\ Unwrap(document_result).ok
    /\ ReturnedId = <<"i", "2">>

\* a script with references, none of them usable, fails
C25_ReferencesButMissing ==
    /\ ParsedDdl
    /\ Unwrap(document).level = "script"
    /\ ReferencesOfKind # <<>>
    /\ Unwrap(document_result) = Err("Missing script id")

-----------------------------------------------------------------------------
(* parse_uml_model (src/magicdraw_parser/uml_model_parser.rs:255-345)      *)

MaxItems == 3

\* the start elements the loop of parse_uml_model acts on, in document order: a
\* uml:Model element with the model parse_model returns for it, and the marker
\* elements with the attribute they are read by (None when it is absent)
ModelItem(model) == [kind |-> "uml:Model", model |-> model]
MarkerItem(kind, attribute) == [kind |-> kind, attribute |-> attribute]

RECURSIVE Flattened(_)
Flattened(seqs) == IF seqs = <<>> THEN <<>> ELSE Head(seqs) \o Flattened(Tail(seqs))

\* the constraints in the order of the four nested loops of lines 256-259
ConstraintsInOrder(models) ==
    Flattened([m \in 1..Len(models) |->
        Flattened([p \in 1..Len(models[m].packages) |->
            Flattened([c \in 1..Len(models[m].packages[p].classess) |->
                models[m].packages[p].classess[c].constraints])])])

\* lines 255-269
find_constraint_by_id(models, id) ==
    LET named == SelectSeq(ConstraintsInOrder(models), LAMBDA constraint : constraint.id = id)
    IN  IF named = <<>> THEN None ELSE Some(named[1])

RECURSIVE uml_model_fields(_, _, _)
\* lines 280-342: models and modifiers after the loop went over the items
uml_model_fields(items, models, modifiers) ==
    IF items = <<>> THEN [models |-> models, modifiers |-> modifiers]
    ELSE LET item == Head(items)
             constraint == find_constraint_by_id(models, Unwrap(item.attribute))
         IN  IF item.kind = "uml:Model"
                 THEN uml_model_fields(Tail(items), Append(models, item.model), modifiers)
             ELSE IF item.kind = "SQLProfile:PrimaryKey"
                 THEN IF \/ item.attribute = None
                         \/ constraint = None
                         \/ Unwrap(constraint).property_id = None
                      THEN uml_model_fields(Tail(items), models, modifiers)
                      ELSE uml_model_fields(Tail(items), models,
                              Append(modifiers,
                                     PirmaryKey(Unwrap(Unwrap(constraint).property_id))))
             ELSE IF item.kind = "SQLProfile:PKMember"
                 THEN IF item.attribute = None
                      THEN uml_model_fields(Tail(items), models, modifiers)
                      ELSE uml_model_fields(Tail(items), models,
                              Append(modifiers, PirmaryKey(Unwrap(item.attribute))))
             ELSE uml_model_fields(Tail(items), models, modifiers)

\* lines 271-345, for a document that is read to its end
parse_uml_model(items) == Ok(uml_model_fields(items, <<>>, <<>>))

\* a model with the property-level constraint k1 of p1 and the class-level constraint
\* k2, a model with the property-level constraint k3 of p3
ItemSamples ==
    {ModelItem(UMLModel(<<UMLPackage(<<UMLClass("c1", Some("t1"), <<>>,
        <<ParsedConstraint("k1", None, Some("p1"), None, None),
          ParsedConstraint("k2", Some("c1"), None, Some(<<"a">>), Some(<<"i", "n", " ", "b">>))
        >>)>>)>>)),
     ModelItem(UMLModel(<<UMLPackage(<<UMLClass("c2", Some("t2"), <<>>,
        <<ParsedConstraint("k3", None, Some("p3"), None, None)>>)>>)>>)),
     MarkerItem("xmi:Extension", None)}
    \cup {MarkerItem("SQLProfile:PrimaryKey", attribute) :
            attribute \in {None, Some("k1"), Some("k2"), Some("k3"), Some("k9")}}
    \cup {MarkerItem("SQLProfile:PKMember", attribute) : attribute \in {None, Some("p2")}}

UmlDocuments == SeqsUpTo(ItemSamples, MaxItems)

UmlInit ==
    /\ document \in {Some([items |-> items]) : items \in UmlDocuments}
    /\ document_result = None
    /\ xml_events = <<>> /\ xml_consumed = 0 /\ xml_depth = 0 /\ xml_frames = <<>>
    /\ xml_readers = <<>> /\ xml_visits = <<>> /\ xml_returns = <<>> /\ xml_outcome = None

\* one call of parse_uml_model
ParseUmlModel ==
    /\ document # None
    /\ document_result = None
    /\ document_result' = Some(parse_uml_model(Unwrap(document).items))
    /\ UNCHANGED <<document, xml_events, xml_consumed, xml_depth, xml_frames, xml_readers,
                   xml_visits, xml_returns, xml_outcome>>
    /\ OthersIdle

InitUml ==
    GenIdle /\ ValueIdle /\ GuessIdle /\ CheckIdle /\ ProjectIdle /\ AppIdle /\ UmlInit

NextUml == ParseUmlModel

SpecUml == InitUml /\ [][NextUml]_vars

ParsedUml == document_result # None

ItemsOfKind(kind) == SelectSeq(Unwrap(document).items, LAMBDA item : item.kind = kind)

ModelsOfDocument == [i \in 1..Len(ItemsOfKind("uml:Model")) |-> ItemsOfKind("uml:Model")[i].model]

ModelsBefore(position) ==
    LET before == SelectSeq(SubSeq(Unwrap(document).items, 1, position - 1),
                            LAMBDA item : item.kind = "uml:Model")
    IN  [i \in 1..Len(before) |-> before[i].model]

ReturnedFacts ==
    {Unwrap(document_result).value.modifiers[i] :
        i \in 1..Len(Unwrap(document_result).value.modifiers)}

\* the property the marker's base_Constraint names through a property-level
\* constraint of the models, None when there is none
MarkedProperty(item, models) ==
    IF item.attribute = None \/ find_constraint_by_id(models, Unwrap(item.attribute)) = None
    THEN None
    ELSE Unwrap(find_constraint_by_id(models, Unwrap(item.attribute))).property_id

\* C26 as stated: a SQLProfile:PrimaryKey marker whose base_Constraint names a
\* property-level constraint of the document yields a PrimaryKey fact for that
\* constraint's property wherever the marker stands, as a SQLProfile:PKMember marker
\* does for its base_Property.
C26_MarkersAtAnyPosition ==
    ParsedUml =>
        \A position \in 1..Len(Unwrap(document).items) :
            LET item == Unwrap(document).items[position]
            IN  /\ (item.kind = "SQLProfile:PrimaryKey"
                        /\ MarkedProperty(item, ModelsOfDocument) # None)
                    => PirmaryKey(Unwrap(MarkedProperty(item, ModelsOfDocument)))
                            \in ReturnedFacts
                /\ (item.kind = "SQLProfile:PKMember" /\ item.attribute # None)
                    => PirmaryKey(Unwrap(item.attribute)) \in ReturnedFacts

\* what the code does: the facts are those of the PKMember markers and of the
\* PrimaryKey markers that stand after the model that holds their constraint
C26_MarkersAfterTheirModel ==
    ParsedUml =>
        ReturnedFacts =
            {PirmaryKey(Unwrap(Unwrap(document).items[position].attribute)) :
                position \in {i \in 1..Len(Unwrap(document).items) :
                    /\ Unwrap(document).items[i].kind = "SQLProfile:PKMember"
                    /\ Unwrap(document).items[i].attribute # None}}
            \cup
            {PirmaryKey(Unwrap(MarkedProperty(Unwrap(document).items[position],
                                              ModelsBefore(position)))) :
                position \in {i \in 1..Len(Unwrap(document).items) :
                    /\ Unwrap(document).items[i].kind = "SQLProfile:PrimaryKey"
                    /\ MarkedProperty(Unwrap(document).items[i], ModelsBefore(i)) # None}}

\* the marker of k1 before the model that holds k1: no fact
C26_MarkerBeforeModel ==
    /\ ParsedUml
    /\ Len(Unwrap(document).items) = 2
    /\ Unwrap(document).items[1] = MarkerItem("SQLProfile:PrimaryKey", Some("k1"))
    /\ Unwrap(document).items[2].kind = "uml:Model"
    /\ MarkedProperty(Unwrap(document).items[1], ModelsOfDocument) = Some("p1")
    /\ ReturnedFacts = {}

\* the same two elements in the other order: the fact of p1
C26_MarkerAfterModel ==
    /\ ParsedUml
    /\ Len(Unwrap(document).items) = 2
    /\ Unwrap(document).items[2] = MarkerItem("SQLProfile:PrimaryKey", Some("k1"))
    /\ ReturnedFacts = {PirmaryKey("p1")}

-----------------------------------------------------------------------------
(* parse_project over foreign-key facts and DDL classes that list a part   *)
(* of the properties of their class                                        *)

MaxKeys == 2

\* class c1 (t1) with p1 (c1) and p2 (c2), class c2 (t2) with p3 (c3); p2 with or
\* without type
KeyModels ==
    {<<UMLModel(<<
        UMLPackage(<<UMLClass("c1", Some(TableName(1)),
                              <<UMLProperty("p1", Some(ColumnName(1)), Some("types#int")),
                                UMLProperty("p2", Some(ColumnName(2)), type_href)>>,
                              <<>>),
                     UMLClass("c2", Some(TableName(2)),
                              <<UMLProperty("p3", Some(ColumnName(3)), Some("types#int"))>>,
                              <<>>)>>)>>)>> :
        type_href \in {None, Some("types#int")}}

KeyFacts ==
    {ForeignKey("p1", "p2"), ForeignKey("p1", "p3"), ForeignKey("p2", "p1"),
     ForeignKey("p3", "p1"), ForeignKey("p3", "p2")}

\* c1 with both properties, c1 with p1 alone, both classes, both classes with p2 alone
KeyScripts ==
    {<<DDLProject(<<DDLScript(<<DDLClass("c1", <<"p1", "p2">>)>>)>>)>>,
     <<DDLProject(<<DDLScript(<<DDLClass("c1", <<"p1">>)>>)>>)>>,
     <<DDLProject(<<DDLScript(<<DDLClass("c1", <<"p1", "p2">>), DDLClass("c2", <<"p3">>)>>)>>)>>,
     <<DDLProject(<<DDLScript(<<DDLClass("c2", <<"p3">>), DDLClass("c1", <<"p2">>)>>)>>)>>,
     <<DDLProject(<<DDLScript(<<DDLClass("c2", <<"p3">>)>>),
                    DDLScript(<<DDLClass("c1", <<"p1", "p2">>)>>)>>)>>}

KeyInputs ==
    [models : KeyModels, modifiers : SeqsUpTo(KeyFacts, MaxKeys),
     ddl_scripts : KeyScripts, sql_type_names : {TypeNamesSample}]

KeysInit ==
    /\ project_input \in {Some(in) : in \in KeyInputs}
    /\ project_result = None
    /\ collections = <<>>
    /\ scripts_done = 0
    /\ project_pc = "loop"

InitKeys == GenIdle /\ ValueIdle /\ GuessIdle /\ CheckIdle /\ KeysInit /\ AppIdle /\ ParserIdle

NextKeys == AssembleScript \/ ReturnCollections

SpecKeys == InitKeys /\ [][NextKeys]_vars

\* the lookups of generate_sql.rs:80-88 in the tables of a returned collection: the
\* first table of the name and, in it, the first column of the name, 0 where there
\* is none
LookupIn(collection, foreign_key) ==
    LET table_idx == FindByName(collection.tables, foreign_key[1])
        column_idx == IF table_idx = 0 THEN 0
                      ELSE FindByName(collection.tables[table_idx].columns, foreign_key[2])
    IN  <<table_idx, column_idx>>

\* the foreign keys of the columns of a collection
ForeignKeysOf(collection) ==
    UNION {{Unwrap(collection.tables[t].columns[c].foreign_key) :
                c \in {k \in 1..Len(collection.tables[t].columns) :
                          collection.tables[t].columns[k].foreign_key # None}} :
            t \in 1..Len(collection.tables)}

\* C28 as stated: in every collection parse_project returns, the foreign key (t, c)
\* of a column names a table of the same collection and one of its columns, so the
\* lookups of generate_fake_entries find both.
C28_ForeignKeysNameAssembledColumns ==
    (ProjectReturned /\ Unwrap(project_result).ok) =>
        \A s \in 1..Len(Unwrap(project_result).value) :
            \A foreign_key \in ForeignKeysOf(Unwrap(project_result).value[s]) :
                /\ LookupIn(Unwrap(project_result).value[s], foreign_key)[1] # 0
                /\ LookupIn(Unwrap(project_result).value[s], foreign_key)[2] # 0

\* what the code does: the table is always found, the column need not be
C28_ForeignKeysNameAssembledTables ==
    (ProjectReturned /\ Unwrap(project_result).ok) =>
        \A s \in 1..Len(Unwrap(project_result).value) :
            \A foreign_key \in ForeignKeysOf(Unwrap(project_result).value[s]) :
                LookupIn(Unwrap(project_result).value[s], foreign_key)[1] # 0

\* the script lists p1 of c1 alone and p1 has a foreign key to p2 of c1: the returned
\* table t1 has the column c1 with foreign key (t1, c2) and no column c2
C28_TargetNotListed ==
    /\ ProjectReturned
    /\ Unwrap(project_result).ok
    /\ ProjectScripts = <<DDLScript(<<DDLClass("c1", <<"p1">>)>>)>>
    /\ Len(Unwrap(project_result).value[1].tables[1].columns) = 1
    /\ Unwrap(project_result).value[1].tables[1].columns[1].foreign_key
          = Some(<<TableName(1), ColumnName(2)>>)
    /\ LookupIn(Unwrap(project_result).value[1], <<TableName(1), ColumnName(2)>>) = <<1, 0>>

\* the script lists p1 and p2 and p2 has no type: the column of p2 is left out and the
\* foreign key of p1 names it
C28_TargetLeftOut ==
    /\ ProjectReturned
    /\ Unwrap(project_result).ok
    /\ ProjectScripts = <<DDLScript(<<DDLClass("c1", <<"p1", "p2">>)>>)>>
    /\ Len(Unwrap(project_result).value[1].tables[1].columns) = 1
    /\ Unwrap(project_result).value[1].tables[1].columns[1].foreign_key
          = Some(<<TableName(1), ColumnName(2)>>)

=============================================================================
